---------------------------- MODULE Spec2Model ----------------------------
(***************************************************************************)
(* apply-llm-changes: extraction of file blocks from LLM output and the    *)
(* CLI that writes them.  Strings are sequences of one-character strings,  *)
(* so that the regular expressions of src/src/parser.ts are computed       *)
(* character by character.                                                 *)
(***************************************************************************)
EXTENDS Integers, Sequences, FiniteSets, TLC

VARIABLES
    fn,            \* pure-function harness: which function is applied
    arg,           \* its argument
    ret,           \* its result
    pc,            \* position of runCli / of the extraction pass
    input,         \* originalInput, read from stdin, as a sequence of spans
    remaining,     \* the text the explicit passes hand on (processedInput)
    tokens,        \* marked.lexer's tokens of the remaining text
    idx,           \* loop index of the pass over the tokens
    filesToWrite,  \* the FilesMap, in insertion order
    log,           \* console.warn / console.log / console.error records
    fsOps,         \* file-system calls the writer has made
    counters,      \* the writer's written / errors counters and cursor
    exitCode,      \* process.exit code, -1 while running
    writePromises, \* the write promises of the concurrent writer (part_016:108)
    oracle,        \* the sequential LLM pipeline's state
    lastIndex      \* lastIndex of the two shared regular expressions (flag g)

fnVars == <<fn, arg, ret>>
parserVars == <<pc, input, remaining, tokens, idx, filesToWrite, log>>
cliVars == <<fsOps, counters, exitCode, writePromises>>
vars == <<fn, arg, ret, pc, input, remaining, tokens, idx, filesToWrite, log, fsOps,
          counters, exitCode, writePromises, oracle, lastIndex>>

---------------------------------------------------------------------------
(* Characters and string primitives (JavaScript String / RegExp classes).  *)

Lower == {"a","b","c","d","e","f","g","h","i","j","k","l","m","n","o","p",
          "q","r","s","t","u","v","w","x","y","z"}
Upper == {"A","B","C","D","E","F","G","H","I","J","K","L","M","N","O","P",
          "Q","R","S","T","U","V","W","X","Y","Z"}
Digit == {"0","1","2","3","4","5","6","7","8","9"}

\* \s restricted to the characters the model's strings use
IsWs(c) == c \in {" ", "\t", "\n", "\r"}
IsNl(c) == c \in {"\n", "\r"}
\* [A-Za-z0-9_]
IsWord(c) == c \in Lower \cup Upper \cup Digit \cup {"_"}

\* JS null / undefined / '' are all falsy; every use below tests truthiness only
Null == << >>

\* the back-tick character U+0060, which a TLA+ string literal cannot hold
Tick == "BACKTICK"

Sub(s, a, b) == SubSeq(s, a, b)
From(s, a) == SubSeq(s, a, Len(s))

StartsWithAt(s, k, p) ==
    k >= 1 /\ k + Len(p) - 1 <= Len(s) /\ SubSeq(s, k, k + Len(p) - 1) = p
StartsWith(s, p) == StartsWithAt(s, 1, p)
EndsWith(s, p) == Len(p) <= Len(s) /\ StartsWithAt(s, Len(s) - Len(p) + 1, p)
Includes(s, p) == \E k \in 1..Len(s) : StartsWithAt(s, k, p)

Min(S) == CHOOSE x \in S : \A y \in S : x <= y
Max(S) == CHOOSE x \in S : \A y \in S : y <= x

\* String.prototype.trim
Trim(s) ==
    LET keep == {k \in 1..Len(s) : ~IsWs(s[k])}
    IN  IF keep = {} THEN << >> ELSE SubSeq(s, Min(keep), Max(keep))

\* index of the first character at or after k that is not whitespace
SkipWs(s, k) ==
    LET stop == {j \in k..Len(s) : ~IsWs(s[j])}
    IN  IF stop = {} THEN Len(s) + 1 ELSE Min(stop)

\* s.replace(/\\/g, '/')
BackslashToSlash(s) == [k \in 1..Len(s) |-> IF s[k] = "\\" THEN "/" ELSE s[k]]

\* s.replace(/\/+/g, '/')
CollapseSlashes(s) ==
    LET keep == {k \in 1..Len(s) : ~(s[k] = "/" /\ k > 1 /\ s[k-1] = "/")}
        RECURSIVE Pick(_, _)
        Pick(k, acc) == IF k > Len(s) THEN acc
                        ELSE Pick(k + 1, IF k \in keep THEN Append(acc, s[k]) ELSE acc)
    IN  Pick(1, << >>)

\* s.split(/\r?\n/)
RECURSIVE SplitLines(_)
SplitLines(s) ==
    LET nl == {k \in 1..Len(s) : s[k] = "\n"}
    IN  IF nl = {} THEN <<s>>
        ELSE LET k == Min(nl)
                 e == IF k > 1 /\ s[k-1] = "\r" THEN k - 2 ELSE k - 1
             IN  <<SubSeq(s, 1, e)>> \o SplitLines(From(s, k + 1))

---------------------------------------------------------------------------
(* isValidPathCandidate, src/src/parser.ts:95-144                          *)

MinPathLen == 3
MaxPathLen == 255

\* /^[a-zA-Z]:[\\/]/
HasDrivePrefix(t) ==
    Len(t) >= 3 /\ t[1] \in Lower \cup Upper /\ t[2] = ":" /\ t[3] \in {"\\", "/"}

\* /^(https?|ftp):\/\//i
ToLower(c) ==
    IF c \in Upper
    THEN CHOOSE l \in Lower : \E k \in 1..26 :
             /\ <<"A","B","C","D","E","F","G","H","I","J","K","L","M","N","O","P","Q","R","S","T","U","V","W","X","Y","Z">>[k] = c
             /\ <<"a","b","c","d","e","f","g","h","i","j","k","l","m","n","o","p","q","r","s","t","u","v","w","x","y","z">>[k] = l
    ELSE c
LowerStr(s) == [k \in 1..Len(s) |-> ToLower(s[k])]
HasUrlScheme(t) ==
    LET l == LowerStr(t)
    IN  \/ StartsWith(l, <<"h","t","t","p",":","/","/">>)
        \/ StartsWith(l, <<"h","t","t","p","s",":","/","/">>)
        \/ StartsWith(l, <<"f","t","p",":","/","/">>)

\* the traversal test of parser.ts:107
RejectsTraversal(t) ==
    \/ StartsWith(t, <<".", ".", "/">>)
    \/ Includes(t, <<"/", ".", ".", "/">>)
    \/ Includes(t, <<"\\", ".", ".", "\\">>)

\* /[<>:"|?*\x00-\x1F]/ : the control characters of the model are \t \n \r
IsInvalidPathChar(c) == c \in {"<", ">", ":", "\"", "|", "?", "*", "\t", "\n", "\r"}

isValidPathCandidate(candidate) ==
    IF candidate = Null THEN FALSE
    ELSE LET trimmed == Trim(candidate) IN
         IF trimmed = << >> \/ Len(trimmed) < MinPathLen \/ Len(trimmed) > MaxPathLen
         THEN FALSE
         ELSE IF StartsWith(trimmed, <<"/">>) \/ HasDrivePrefix(trimmed) THEN FALSE
         ELSE IF RejectsTraversal(trimmed) THEN FALSE
         ELSE IF HasUrlScheme(trimmed) THEN FALSE
         ELSE IF ~(\E k \in 1..Len(trimmed) : trimmed[k] \in {"\\", "/", "."}) THEN FALSE
         ELSE IF trimmed[Len(trimmed)] \in {".", ",", ";", "!", "?"}
                 /\ Includes(trimmed, <<" ">>) THEN FALSE
         ELSE IF \E k \in 1..Len(trimmed) : IsInvalidPathChar(trimmed[k]) THEN FALSE
         ELSE TRUE


---------------------------------------------------------------------------
(* The patterns of src/src/parser.ts:18-46.  Each operator returns the     *)
(* capture group of the first match in backtracking order, or Null.        *)

HasNl(s, a) == \E k \in a..Len(s) : IsNl(s[k])
AllWs(s, a) == \A k \in a..Len(s) : IsWs(s[k])

\* the maximal run of non-whitespace characters starting at a: its last index
RunEnd(s, a) ==
    LET stop == {j \in a..Len(s) : IsWs(s[j])}
    IN  IF stop = {} THEN Len(s) ELSE Min(stop) - 1

\* ([^`\s].*?)`?:?$ with the capture starting at p: the shortest capture whose
\* rest is one of '', '`', ':', '`:'
CaptureTail(s, p) ==
    IF p > Len(s) \/ s[p] = Tick \/ IsWs(s[p]) \/ HasNl(s, p) THEN Null
    ELSE LET ends == {e \in p..Len(s) :
                        From(s, e + 1) \in {<< >>, <<Tick>>, <<":">>, <<Tick, ":">>}}
         IN  SubSeq(s, p, Min(ends))

\* `?([^`\s].*?)`?:?$ after the greedy \s* has stopped at w
CaptureAfterTick(s, w) ==
    IF w <= Len(s) /\ s[w] = Tick THEN CaptureTail(s, w + 1) ELSE CaptureTail(s, w)

IsFileOrPathAt(s, j) ==
    StartsWithAt(s, j, <<"F","i","l","e">>) \/ StartsWithAt(s, j, <<"P","a","t","h">>)

\* "Heading": /^(?:#+\s*(?:File|Path):?)\s*`?([^`\s].*?)`?:?$/
HeadingCapture(s) ==
    LET notHash == {k \in 1..Len(s) : s[k] # "#"}
        h == IF notHash = {} THEN Len(s) + 1 ELSE Min(notHash)
        j == SkipWs(s, h)
        r == j + 4
        colon == r <= Len(s) /\ s[r] = ":"
        withColon == CaptureAfterTick(s, SkipWs(s, IF colon THEN r + 1 ELSE r))
    IN  IF h = 1 \/ ~IsFileOrPathAt(s, j) THEN Null
        ELSE IF withColon # Null THEN withColon
        ELSE IF colon THEN CaptureTail(s, r)   \* :? gives the colon back
        ELSE Null

\* "Explicit Marker": /^(?:File|Path):\s*`?([^`\s].*?)`?:?$/
ExplicitMarkerCapture(s) ==
    IF IsFileOrPathAt(s, 1) /\ Len(s) >= 5 /\ s[5] = ":"
    THEN CaptureAfterTick(s, SkipWs(s, 6))
    ELSE Null

\* (?:[^`\\]|\\.)+ from position j: the indices at which it can end
RECURSIVE EscapedRunEnds(_, _)
EscapedRunEnds(s, j) ==
    IF j > Len(s) \/ s[j] = Tick THEN {}
    ELSE IF s[j] = "\\"
         THEN IF j + 1 <= Len(s) /\ ~IsNl(s[j + 1])
              THEN {j + 1} \cup EscapedRunEnds(s, j + 2) ELSE {}
         ELSE {j} \cup EscapedRunEnds(s, j + 1)

\* \.[^`\s/\\]+` after index e: the index of the closing back-tick, or 0
ExtensionTick(s, e) ==
    LET stop == {j \in (e + 2)..Len(s) : s[j] = Tick \/ IsWs(s[j]) \/ s[j] \in {"/", "\\"}}
        m == IF stop = {} THEN 0 ELSE Min(stop)
    IN  IF e + 1 <= Len(s) /\ s[e + 1] = "." /\ m > e + 2 /\ s[m] = Tick THEN m ELSE 0

\* the match of the pattern whose opening back-tick is at k: <<capture>> or << >>
InlineBackticksAt(s, k) ==
    LET good == {e \in EscapedRunEnds(s, k + 1) : ExtensionTick(s, e) # 0}
    IN  IF s[k] # Tick \/ good = {} THEN << >>
        ELSE <<SubSeq(s, k + 1, ExtensionTick(s, Max(good)) - 1)>>

\* "Inline Backticks": /`((?:[^`\\]|\\.)+\.[^`\s/\\]+)`/ (leftmost match)
InlineBackticksCapture(s) ==
    LET starts == {k \in 1..Len(s) : InlineBackticksAt(s, k) # << >>}
    IN  IF starts = {} THEN Null ELSE InlineBackticksAt(s, Min(starts))[1]

\* [^\\/\s?*:"<>|]
IsSegmentChar(c) ==
    ~IsWs(c) /\ c \notin {"\\", "/", "?", "*", ":", "\"", "<", ">", "|"}

\* "Standalone Path":
\* /^[ \t]*((?:[^\\/\s?*:"<>|]+\/)*[^\\/\s?*:"<>|]+\.[A-Za-z0-9_]+)[ \t]*$/
StandalonePathCapture(s) ==
    LET body == {k \in 1..Len(s) : s[k] \notin {" ", "\t"}}
        b == IF body = {} THEN << >> ELSE SubSeq(s, Min(body), Max(body))
        slashes == {k \in 1..Len(b) : b[k] = "/"}
        lastStart == IF slashes = {} THEN 1 ELSE Max(slashes) + 1
        dots == {k \in lastStart..Len(b) : b[k] = "."}
    IN  IF /\ b # << >>
           /\ \A k \in 1..Len(b) : b[k] = "/" \/ IsSegmentChar(b[k])
           /\ b[1] # "/" /\ b[Len(b)] # "/"
           /\ \A k \in slashes : k + 1 \notin slashes
           /\ dots # {}
           /\ Max(dots) > lastStart /\ Max(dots) < Len(b)
           /\ \A k \in (Max(dots) + 1)..Len(b) : IsWord(b[k])
        THEN b ELSE Null

\* the match of listItemPathRegex whose '**' starts at k: <<capture>> or << >>
ListItemPathAt(s, k) ==
    LET t == SkipWs(s, k + 2)
        ticks == {j \in (t + 1)..Len(s) : s[j] = Tick}
        c == IF ticks = {} THEN 0 ELSE Min(ticks)
    IN  IF /\ StartsWithAt(s, k, <<"*", "*">>)
           /\ t <= Len(s) /\ s[t] = Tick
           /\ c > t + 1
           /\ ~IsWs(s[t + 1]) /\ ~IsWs(s[c - 1])
           /\ StartsWithAt(s, SkipWs(s, c + 1), <<"*", "*">>)
        THEN <<SubSeq(s, t + 1, c - 1)>> ELSE << >>

\* listItemPathRegex: /\*\*\s*`([^`\s](?:[^`]*[^`\s])?)`\s*\*\*/ (leftmost match)
ListItemPathCapture(s) ==
    LET starts == {k \in 1..Len(s) : ListItemPathAt(s, k) # << >>}
    IN  IF starts = {} THEN Null ELSE ListItemPathAt(s, Min(starts))[1]

\* (?:File:\s*)?(\S+)\s*$ at w, the optional group tried first
FilePrefixedToken(s, w) ==
    LET tok(a) == IF a <= Len(s) /\ ~IsWs(s[a]) /\ AllWs(s, RunEnd(s, a) + 1)
                  THEN SubSeq(s, a, RunEnd(s, a)) ELSE Null
        a1 == SkipWs(s, w + 5)
    IN  IF StartsWithAt(s, w, <<"F","i","l","e",":">>) /\ tok(a1) # Null
        THEN tok(a1) ELSE tok(w)

\* "Single Line Comment": /^\s*(?:\/\/|#)\s*(?:File:\s*)?(\S+)\s*$/
SingleLineCommentCapture(s) ==
    LET a == SkipWs(s, 1)
    IN  IF StartsWithAt(s, a, <<"/", "/">>) THEN FilePrefixedToken(s, SkipWs(s, a + 2))
        ELSE IF StartsWithAt(s, a, <<"#">>) THEN FilePrefixedToken(s, SkipWs(s, a + 1))
        ELSE Null

\* "Block Comment Single Line": /^\s*\/\*\s*(?:File:\s*)?(\S+)\s*\*\/$/
BlockCommentSingleLineCapture(s) ==
    LET a == SkipWs(s, 1)
        inner == SubSeq(s, 1, Len(s) - 2)     \* what precedes the final */
    IN  IF StartsWithAt(s, a, <<"/", "*">>) /\ EndsWith(s, <<"*", "/">>)
           /\ Len(s) - 1 >= a + 2
        THEN FilePrefixedToken(inner, SkipWs(inner, a + 2))
        ELSE Null

\* headerCommentPathRegex: /^\s*\/\*([\s\S]*?)\*\//, the text between /* and */
HeaderCommentBody(s) ==
    LET a == SkipWs(s, 1)
        closes == {e \in (a + 2)..Len(s) : StartsWithAt(s, e, <<"*", "/">>)}
    IN  IF StartsWithAt(s, a, <<"/", "*">>) /\ closes # {}
        THEN <<SubSeq(s, a + 2, Min(closes) - 1)>> ELSE << >>

\* pathInCommentLineRegex: /^\s*\*\s*(\S+?)\s*$/
PathInCommentLineCapture(line) ==
    LET a == SkipWs(line, 1)
        b == SkipWs(line, a + 1)
    IN  IF a <= Len(line) /\ line[a] = "*" /\ b <= Len(line)
           /\ AllWs(line, RunEnd(line, b) + 1)
        THEN SubSeq(line, b, RunEnd(line, b)) ELSE Null

---------------------------------------------------------------------------
(* The path strategies and the content clean-up of parser.ts.              *)

\* potentialPath = match[group]?.trim(); returned when isValidPathCandidate
TrimmedIfValid(trimmed) == IF isValidPathCandidate(trimmed) THEN trimmed ELSE Null
ValidCapture(c) == IF c = Null THEN Null ELSE TrimmedIfValid(Trim(c))

\* the first entry of a sequence that is not Null, else Null
FirstNonNull(vals) ==
    LET ok == {k \in 1..Len(vals) : vals[k] # Null}
    IN  IF ok = {} THEN Null ELSE vals[Min(ok)]

\* a search that ends at the first pattern that matches, valid or not
FirstValidCapture_StopsAtFirstMatch(caps) == ValidCapture(FirstNonNull(caps))

\* the first entry of a sequence of captures that validates, else Null
FirstValidCapture(caps) ==
    FirstNonNull([k \in 1..Len(caps) |-> ValidCapture(caps[k])])

\* pathPatterns in the order of the array (parser.ts:23-33)
PathPatternCaptures(t) ==
    << HeadingCapture(t), InlineBackticksCapture(t),
       StandalonePathCapture(t), ExplicitMarkerCapture(t) >>

extractPathFromPrecedingText(text) ==
    IF text = Null THEN Null
    ELSE FirstValidCapture(PathPatternCaptures(Trim(text)))

CommentLineCaptures(commentLines) ==
    [k \in 1..Len(commentLines) |-> PathInCommentLineCapture(commentLines[k])]

HeaderCommentPath(body) ==
    IF body = << >> THEN Null
    ELSE FirstValidCapture(CommentLineCaptures(SplitLines(body[1])))

extractPathFromHeaderCommentBlock(codeContent) ==
    IF codeContent = Null THEN Null ELSE HeaderCommentPath(HeaderCommentBody(codeContent))

\* firstLineCommentPathPatterns in the order of the array (parser.ts:39-46)
FirstLineCaptures(t) ==
    << SingleLineCommentCapture(t), BlockCommentSingleLineCapture(t) >>

FirstLinePath(firstLine) ==
    IF firstLine = << >> THEN Null
    ELSE FirstValidCapture(FirstLineCaptures(Trim(firstLine)))

extractPathFromFirstLineComment(codeContent) ==
    IF codeContent = Null THEN Null ELSE FirstLinePath(SplitLines(codeContent)[1])

\* s.replace(/^\r?\n/, '')
DropLeadingNewline(s) ==
    IF StartsWith(s, <<"\r", "\n">>) THEN From(s, 3)
    ELSE IF StartsWith(s, <<"\n">>) THEN From(s, 2)
    ELSE s

\* s.replace(/^\s*\r?\n/, ''): the leading whitespace up to its last line feed
DropLeadingBlankLines(s) ==
    LET nls == {k \in 1..(SkipWs(s, 1) - 1) : s[k] = "\n"}
    IN  IF nls = {} THEN s ELSE From(s, Max(nls) + 1)

\* s.replace(/\r?\n\s*$/, ''): from the first line break of the trailing whitespace
DropTrailingBlank(s) ==
    LET tail == {k \in 1..Len(s) : s[k] = "\n" /\ AllWs(s, k)}
        n == Min(tail)
        start == IF n > 1 /\ s[n - 1] = "\r" THEN n - 1 ELSE n
    IN  IF tail = {} THEN s ELSE SubSeq(s, 1, start - 1)

\* a cleaning that trims the content at both ends
CleanExplicitContent_TrimAll(contentMatch) == Trim(contentMatch)

\* parser.ts:70-72
CleanExplicitContent(contentMatch) == DropTrailingBlank(DropLeadingNewline(contentMatch))

\* parser.ts:380-382
CleanCodeContent(codeContent) == DropTrailingBlank(DropLeadingBlankLines(codeContent))

\* parser.ts:385-395: drop the first line when it is the path comment
MatchesFirstLinePattern(caps) == \E k \in 1..Len(caps) : caps[k] # Null
RemoveLine(cleaned, firstLine) ==
    IF firstLine # << >> /\ MatchesFirstLinePattern(FirstLineCaptures(Trim(firstLine)))
    THEN DropLeadingNewline(From(cleaned, Len(firstLine) + 1))
    ELSE cleaned
FirstLineOf(s) == SplitLines(s)[1]
RemoveFirstLineOf(cleaned) == RemoveLine(cleaned, FirstLineOf(cleaned))
RemoveFirstLineComment(codeContent) == RemoveFirstLineOf(CleanCodeContent(codeContent))

\* a clean-up that never drops the comment line
CleanedContent_KeepLine(codeContent, foundBy) == CleanCodeContent(codeContent)

CleanedContent(codeContent, foundBy) ==
    IF foundBy = "First Line Comment"
    THEN RemoveFirstLineComment(codeContent)
    ELSE CleanCodeContent(codeContent)

\* parser.ts:372-375
NormalizePath(path) == CollapseSlashes(BackslashToSlash(Trim(path)))

---------------------------------------------------------------------------
(* FilesMap (a JavaScript Map: insertion order kept, Map.set on an         *)
(* existing key replaces the value in place).                              *)

MapKeys(m) == {m[k].path : k \in 1..Len(m)}
MapHas(m, key) == key \in MapKeys(m)
MapGet(m, key) == m[CHOOSE k \in 1..Len(m) : m[k].path = key]
\* a map in which the entry that is there stays
MapSet_KeepsFirst(m, key, content, format) ==
    IF MapHas(m, key) THEN m
    ELSE Append(m, [path |-> key, content |-> content, format |-> format])
MapSet(m, key, content, format) ==
    LET e == [path |-> key, content |-> content, format |-> format]
    IN  IF MapHas(m, key)
        THEN [k \in 1..Len(m) |-> IF m[k].path = key THEN e ELSE m[k]]
        ELSE Append(m, e)

CommentBlock == "Comment Block"
TagBlock == "Tag Block"
MarkdownBlock == "Markdown Block"

\* 'Comment Block'
CommentBlockText == <<"C","o","m","m","e","n","t"," ","B","l","o","c","k">>
\* 'Tag Block'
TagBlockText == <<"T","a","g"," ","B","l","o","c","k">>
FormatText(formatName) == IF formatName = CommentBlock THEN CommentBlockText ELSE TagBlockText

\* `\n[LLM_APPLY_Processed ${formatName} for ${normalizedPath}]\n` (parser.ts:79)
PlaceholderText(formatName, normalizedPath) ==
    <<"\n">> \o <<"[","L","L","M","_","A","P","P","L","Y","_","P","r","o","c","e","s","s","e","d"," ">> \o FormatText(formatName)
    \o <<" ","f","o","r"," ">> \o normalizedPath \o <<"]", "\n">>

---------------------------------------------------------------------------
(* extractExplicitBlocks, parser.ts:57-86.  The text is a sequence of      *)
(* spans that blank lines separate.  A span of kind "comment" holds one    *)
(* START OF marker, a content and one END OF marker; a span of kind "tag"  *)
(* holds one <file> element; a span of kind "md" is markdown that marked   *)
(* lexes as one token; "raw" is text put there by String.replace.  inner   *)
(* is what marked finds in the content of a span that stays in the text.   *)
(* A marker can also stand alone: "commentStart", "commentEnd", "tagOpen", *)
(* "tagClose" and "fence" are spans that hold one marker or one fence line *)
(* and enclose the spans between them.                                     *)

StartMarker(p) == <<"/","*"," ","S","T","A","R","T"," ","O","F"," ">> \o p \o <<" ","*","/">>
EndMarker(p) == <<"/","*"," ","E","N","D"," ","O","F"," ">> \o p \o <<" ","*","/">>
OpenTag(p) == <<"<","f","i","l","e"," ","p","a","t","h","=","\"">> \o p \o <<"\"",">">>
CloseTag == <<"<","/","f","i","l","e",">">>
FenceLine == <<Tick, Tick, Tick>>
BlankLine == <<"\n", "\n">>

\* the markdown source of a token
MdSource(type, text) ==
    IF type = "code" THEN FenceLine \o <<"\n">> \o text \o <<"\n">> \o FenceLine
    ELSE IF type = "heading" THEN <<"#", "#", " ">> \o text
    ELSE IF type = "list_item" THEN <<"-", " ">> \o text
    ELSE text

\* the source text of a span
SpanSource(span) ==
    IF span.kind = "comment"
    THEN StartMarker(span.path) \o <<"\n">> \o span.content \o <<"\n">> \o EndMarker(span.endPath)
    ELSE IF span.kind = "tag" THEN OpenTag(span.path) \o span.content \o CloseTag
    ELSE IF span.kind = "raw" THEN span.text
    ELSE IF span.kind = "commentStart" THEN StartMarker(span.path)
    ELSE IF span.kind = "commentEnd" THEN EndMarker(span.endPath)
    ELSE IF span.kind = "tagOpen" THEN OpenTag(span.path)
    ELSE IF span.kind = "tagClose" THEN CloseTag
    ELSE IF span.kind = "fence" THEN FenceLine
    ELSE MdSource(span.type, span.text)

\* the text of the spans a..b, each followed by the blank line that ends it
RECURSIVE SourceBetween(_, _, _)
SourceBetween(in, a, b) ==
    IF a > b THEN << >>
    ELSE SpanSource(in[a]) \o BlankLine \o SourceBetween(in, a + 1, b)

\* a comment syntax without the back-reference: any END OF marker closes
MatchEnd_AnyEnd(in, k, formatName) ==
    IF in[k].kind = (IF formatName = CommentBlock THEN "comment" ELSE "tag") THEN k ELSE 0

\* parser.ts:11-12: where the match that starts at span k ends, 0 when the
\* regular expression does not match there.  The comment syntax needs END OF
\* to repeat the path of START OF (the back-reference \1); its content is
\* lazy and crosses lines (flag s), so the match ends at the nearest END OF
\* marker that names the path.  A <file> element ends at its own </file>.
NearestEnd(ends) == IF ends = {} THEN 0 ELSE Min(ends)
MatchEnd(in, k, formatName) ==
    IF formatName = CommentBlock
    THEN IF in[k].kind \in {"comment", "commentStart"}
         THEN NearestEnd({j \in k..Len(in) : /\ in[j].kind \in {"comment", "commentEnd"}
                                             /\ in[j].endPath = in[k].path})
         ELSE 0
    ELSE IF in[k].kind \in {"tag", "tagOpen"}
         THEN NearestEnd({j \in k..Len(in) : /\ in[j].kind \in {"tag", "tagClose"}
                                             /\ (j = k => in[k].kind = "tag")})
         ELSE 0

\* input.matchAll(regex), parser.ts:64: the matches from left to right, none
\* starting before the end of the one before; the scan starts at lastIndex
RECURSIVE MatchAll(_, _, _)
RECURSIVE MatchAllAt(_, _, _, _)
MatchAllAt(in, k, formatName, j) ==
    IF j = 0 THEN MatchAll(in, k + 1, formatName)
    ELSE <<[from |-> k, to |-> j]>> \o MatchAll(in, j + 1, formatName)
MatchAll(in, k, formatName) ==
    IF k > Len(in) THEN << >>
    ELSE MatchAllAt(in, k, formatName, MatchEnd(in, k, formatName))

\* what span a holds after its opening marker and the line break that
\* \r?\n? takes, up to the next span
AfterOpening(span) ==
    IF span.kind = "comment"
    THEN span.content \o <<"\n">> \o EndMarker(span.endPath) \o BlankLine
    ELSE <<"\n">>

\* the content that ends in span b: a marker that stands alone gives the line
\* break before it to \r?\n?, a block holds its own opening marker first
BeforeClosing(text, span) ==
    IF span.kind = "comment" THEN text \o StartMarker(span.path) \o <<"\n">> \o span.content
    ELSE IF span.kind = "tag" THEN text \o OpenTag(span.path) \o span.content
    ELSE SubSeq(text, 1, Len(text) - 1)

\* the group (?<content>.*?) of the match from span a to span b
MatchContent(in, a, b) ==
    IF a = b THEN in[a].content
    ELSE BeforeClosing(AfterOpening(in[a]) \o SourceBetween(in, a + 1, b - 1), in[b])

\* a span that is a copy of text an explicit block has matched carries the
\* field consumed; the field is no part of the text
IsConsumed(span) == "consumed" \in DOMAIN span
Unmarked(span) ==
    IF IsConsumed(span) THEN [f \in DOMAIN span \ {"consumed"} |-> span[f]] ELSE span
Marked(span) == [consumed |-> TRUE] @@ span
UnmarkedAll(str) == [k \in 1..Len(str) |-> Unmarked(str[k])]
MarkedAll(str) == [k \in 1..Len(str) |-> Marked(str[k])]

RawText(text) == IF text = << >> THEN << >> ELSE <<[kind |-> "raw", text |-> text]>>

\* GetSubstitution of String.prototype.replace with a string pattern: in the
\* replacement $$ is a dollar sign, $& the matched text, $` the text before
\* the match, $' the text after it; any other $ stands for itself
RECURSIVE GetSubstitution(_, _, _, _, _)
GetSubstitution(replacement, text, matched, before, after) ==
    IF replacement = << >> THEN RawText(text)
    ELSE IF replacement[1] = "$" /\ Len(replacement) >= 2
                /\ replacement[2] \in {"$", "&", Tick, "'"}
         THEN IF replacement[2] = "$"
              THEN GetSubstitution(From(replacement, 3), Append(text, "$"), matched, before, after)
              ELSE RawText(text)
                   \o (IF replacement[2] = "&" THEN matched
                       ELSE IF replacement[2] = Tick THEN before ELSE after)
                   \o GetSubstitution(From(replacement, 3), << >>, matched, before, after)
         ELSE GetSubstitution(Tail(replacement), Append(text, replacement[1]),
                              matched, before, after)

\* String.indexOf: the first place of str where pattern stands, 0 if none
FirstOccurrence(str, pattern) ==
    LET occ == {i \in 1..(Len(str) - Len(pattern) + 1) :
                   SubSeq(str, i, i + Len(pattern) - 1) = pattern}
    IN  IF occ = {} THEN 0 ELSE Min(occ)

\* remainingInput.replace(fullMatch, placeholder), parser.ts:80: the first
\* occurrence of the pattern gives way to the substitution
ReplaceAt(str, pattern, replacement, i) ==
    IF i = 0 THEN str
    ELSE SubSeq(str, 1, i - 1)
         \o GetSubstitution(replacement, << >>, MarkedAll(pattern),
                            SubSeq(str, 1, i - 1), SubSeq(str, i + Len(pattern), Len(str)))
         \o SubSeq(str, i + Len(pattern), Len(str))
StringReplace(str, pattern, replacement) ==
    ReplaceAt(str, pattern, replacement, FirstOccurrence(UnmarkedAll(str), UnmarkedAll(pattern)))

\* parser.ts:69-80: an explicit block with a path
StoreExplicit(st, fullMatch, formatName, normalizedPath, content) ==
    [ files |-> MapSet(st.files, normalizedPath, content, formatName),
      remaining |-> StringReplace(st.remaining, fullMatch,
                                  PlaceholderText(formatName, normalizedPath)),
      log |-> IF MapHas(st.files, normalizedPath)
              THEN Append(st.log, [level |-> "warn", msg |-> "Overwriting",
                                   path |-> normalizedPath, by |-> formatName, token |-> 0])
              ELSE st.log ]

\* parser.ts:65-84: one iteration of the loop over input.matchAll(regex)
ExplicitMatchAt(st, fullMatch, formatName, filePath, contentMatch) ==
    IF filePath # Null
    THEN StoreExplicit(st, fullMatch, formatName, BackslashToSlash(filePath),
                       CleanExplicitContent(contentMatch))
    ELSE [st EXCEPT !.log = Append(st.log,
                [level |-> "warn", msg |-> "Failed to parse explicit block",
                 path |-> Null, by |-> formatName, token |-> 0])]
ExplicitMatch(st, in, mt, formatName) ==
    ExplicitMatchAt(st, SubSeq(in, mt.from, mt.to), formatName,
                    Trim(in[mt.from].path), MatchContent(in, mt.from, mt.to))

RECURSIVE ExplicitLoop(_, _, _, _, _)
ExplicitLoop(st, in, matches, n, formatName) ==
    IF n > Len(matches) THEN st
    ELSE ExplicitLoop(ExplicitMatch(st, in, matches[n], formatName),
                      in, matches, n + 1, formatName)

\* a scan that runs on the shared regular expression and leaves its lastIndex
\* at the end of the text
AfterMatchAll_SharedRegex(li, formatName, in) == [li EXCEPT ![formatName] = Len(in)]

\* parser.ts:11-12, 64: the regular expressions are module constants with
\* flag g; matchAll scans with a clone and leaves lastIndex as it was
RegexInitial == [f \in {CommentBlock, TagBlock} |-> 0]
AfterMatchAll(li, formatName, in) == li

\* returns the remaining input together with the updated map and console;
\* regexLastIndex is the lastIndex of the shared regular expression, which
\* matchAll copies to the clone it scans with
extractExplicitBlocksFrom(in, formatName, files, console, regexLastIndex) ==
    ExplicitLoop([remaining |-> in, files |-> files, log |-> console],
                 in, MatchAll(in, regexLastIndex + 1, formatName), 1, formatName)
extractExplicitBlocks(in, formatName, files, console) ==
    extractExplicitBlocksFrom(in, formatName, files, console, 0)

---------------------------------------------------------------------------
(* extractMarkdownBlocksWithParser, parser.ts:252-424.                     *)

Token(type, text, span) == [type |-> type, text |-> text, consumed |-> IsConsumed(span)]

\* marked.lexer (parser.ts:261): a markdown span is one token; a placeholder
\* is a paragraph; a comment span left in the text is a paragraph, a <file>
\* element an html token, and a fenced block in its content is a code token
\* between the line that opens the span and the line that closes it
LexExplicit(span, type, first, last) ==
    IF span.inner = << >> THEN <<Token(type, SpanSource(span), span)>>
    ELSE <<Token(type, first, span)>>
         \o [k \in 1..Len(span.inner) |-> Token(span.inner[k].type, span.inner[k].text, span)]
         \o <<Token(type, last, span)>>
LexSpan(span) ==
    IF span.kind = "md" THEN <<Token(span.type, span.text, span)>>
    ELSE IF span.kind = "raw" THEN <<Token("paragraph", Trim(span.text), span)>>
    ELSE IF span.kind = "comment"
         THEN LexExplicit(span, "paragraph", StartMarker(span.path), EndMarker(span.endPath))
    ELSE IF span.kind = "tag" THEN LexExplicit(span, "html", OpenTag(span.path), CloseTag)
    ELSE IF span.kind \in {"commentStart", "commentEnd"}
         THEN <<Token("paragraph", SpanSource(span), span)>>
         ELSE <<Token("html", SpanSource(span), span)>>

\* the text of the code token of a fence line that is followed by the source
\* rest: what lies between the line break that ends the fence line and the
\* one before the closing fence
FencedText(rest) == SubSeq(BlankLine \o rest, 2, Len(BlankLine \o rest) - 1)

\* a fence line opens a code token that runs to the next fence line, or to
\* the end of the text when there is none
RECURSIVE Lex(_)
LexFence(markdownInput, close) ==
    <<Token("code", FencedText(SourceBetween(markdownInput, 2, close - 1)), Head(markdownInput))>>
    \o Lex(SubSeq(markdownInput, close + 1, Len(markdownInput)))
Lex(markdownInput) ==
    IF markdownInput = << >> THEN << >>
    ELSE IF Head(markdownInput).kind = "fence"
         THEN LexFence(markdownInput,
                       Min({j \in 2..Len(markdownInput) : markdownInput[j].kind = "fence"}
                           \cup {Len(markdownInput) + 1}))
         ELSE LexSpan(Head(markdownInput)) \o Lex(Tail(markdownInput))

\* a search that goes back to the nearest heading, paragraph or text that
\* names a path
PrecedingTokenIndex_NearestWithPath(toks, i) ==
    LET cand == {j \in 1..(i - 1) :
                   /\ toks[j].type \in {"heading", "paragraph", "text"}
                   /\ extractPathFromPrecedingText(toks[j].text) # Null}
    IN  IF cand = {} THEN 0 ELSE Max(cand)

\* parser.ts:285-289: the nearest token before i that is not a space, 0 if none
PrecedingTokenIndex(toks, i) ==
    LET cand == {j \in 1..(i - 1) : toks[j].type # "space"}
    IN  IF cand = {} THEN 0 ELSE Max(cand)

\* parser.ts:293-296
TextToSearch(tok) ==
    IF tok.type \in {"heading", "paragraph", "text"} THEN tok.text ELSE Null

\* parser.ts:291-298
PrecedingPathAt(toks, j) ==
    IF j = 0 THEN Null ELSE extractPathFromPrecedingText(TextToSearch(toks[j]))
PrecedingTokenPath(toks, i) == PrecedingPathAt(toks, PrecedingTokenIndex(toks, i))

ListLookback == 5

\* a walk that goes on to earlier list items when one does not give a path
RECURSIVE ListItemPath_KeepsLooking(_, _, _)
ListItemPath_KeepsLooking(toks, i, j) ==
    IF j < 1 \/ j < i - ListLookback THEN Null
    ELSE IF toks[j].type = "list_item"
            /\ ValidCapture(ListItemPathCapture(toks[j].text)) # Null
         THEN ValidCapture(ListItemPathCapture(toks[j].text))
         ELSE IF toks[j].type \in {"space", "list_start", "list_end", "list_item"}
              THEN ListItemPath_KeepsLooking(toks, i, j - 1)
              ELSE Null

\* parser.ts:321-355: the loop over j = i-1 .. i-5
RECURSIVE ListItemPath(_, _, _)
ListItemPath(toks, i, j) ==
    IF j < 1 \/ j < i - ListLookback THEN Null
    ELSE IF toks[j].type = "list_item"
         THEN ValidCapture(ListItemPathCapture(toks[j].text))
         ELSE IF toks[j].type \in {"space", "list_start", "list_end"}
              THEN ListItemPath(toks, i, j - 1)
              ELSE Null

\* the strategies in the order the code tries them
StrategyNames == <<"Preceding Token", "Header Comment Block", "List Item", "First Line Comment">>

\* the first strategy that found a path: [path, foundBy], path = Null when none
FirstFound(paths, names) ==
    LET ok == {k \in 1..Len(paths) : paths[k] # Null}
    IN  IF ok = {} THEN [path |-> Null, foundBy |-> "none"]
        ELSE [path |-> paths[Min(ok)], foundBy |-> names[Min(ok)]]

\* a cascade that looks into the code before it looks at the preceding token
ResolveCode_HeaderFirst(toks, i, codeContent) ==
    FirstFound(<< extractPathFromHeaderCommentBlock(codeContent),
                  PrecedingTokenPath(toks, i),
                  ListItemPath(toks, i, i - 1),
                  extractPathFromFirstLineComment(codeContent) >>,
               <<"Header Comment Block", "Preceding Token", "List Item", "First Line Comment">>)

\* parser.ts:278-367: the cascade
ResolveCode(toks, i, codeContent) ==
    FirstFound(<< PrecedingTokenPath(toks, i),
                  extractPathFromHeaderCommentBlock(codeContent),
                  ListItemPath(toks, i, i - 1),
                  extractPathFromFirstLineComment(codeContent) >>, StrategyNames)
ResolvePath(toks, i) == ResolveCode(toks, i, toks[i].text)

WarnMinLength == 10

\* a pass in which an existing entry never protects itself
SkipsExisting_Never(existingFormat) == FALSE

\* parser.ts:397-410: does an existing entry make the markdown block be skipped?
SkipsExisting(existingFormat) ==
    ~(existingFormat # MarkdownBlock /\ existingFormat # CommentBlock
                                     /\ existingFormat # TagBlock)
    /\ existingFormat # MarkdownBlock

LogEntry(level, msg, path, by, token) ==
    [level |-> level, msg |-> msg, path |-> path, by |-> by, token |-> token]

\* a pass in which the first block of a path keeps the entry
StoreBlock_KeepFirst(files, console, i, normalized, cleanedContent, foundBy) ==
    IF MapHas(files, normalized)
    THEN IF SkipsExisting(MapGet(files, normalized).format)
         THEN [files |-> files,
               log |-> Append(console, LogEntry("log", "Skipping", normalized, foundBy, i))]
         ELSE [files |-> files,
               log |-> Append(console, LogEntry("warn", "Overwriting", normalized, foundBy, i))]
    ELSE [files |-> MapSet(files, normalized, cleanedContent, MarkdownBlock),
          log |-> Append(console, LogEntry("log", "Found", normalized, foundBy, i))]

\* parser.ts:397-415: a block whose path is known
StoreBlock(files, console, i, normalized, cleanedContent, foundBy) ==
    IF MapHas(files, normalized)
    THEN IF SkipsExisting(MapGet(files, normalized).format)
         THEN [files |-> files,
               log |-> Append(console, LogEntry("log", "Skipping", normalized, foundBy, i))]
         ELSE [files |-> MapSet(files, normalized, cleanedContent, MarkdownBlock),
               log |-> Append(console, LogEntry("warn", "Overwriting", normalized, foundBy, i))]
    ELSE [files |-> MapSet(files, normalized, cleanedContent, MarkdownBlock),
          log |-> Append(console, LogEntry("log", "Found", normalized, foundBy, i))]

\* a pass that warns about every unresolved block, whatever its length
ProcessResolved_AlwaysWarn(files, console, i, codeContent, r) ==
    IF r.path # Null
    THEN StoreBlock(files, console, i, NormalizePath(r.path),
                    CleanedContent(codeContent, r.foundBy), r.foundBy)
    ELSE [files |-> files,
          log |-> Append(console, LogEntry("warn", "could not determine file path",
                                           Null, "none", i))]

\* parser.ts:370-421: what one code token does to the map and the console
ProcessResolved(files, console, i, codeContent, r) ==
    IF r.path # Null
    THEN StoreBlock(files, console, i, NormalizePath(r.path),
                    CleanedContent(codeContent, r.foundBy), r.foundBy)
    ELSE IF Len(codeContent) > WarnMinLength
         THEN [files |-> files,
               log |-> Append(console, LogEntry("warn", "could not determine file path",
                                                Null, "none", i))]
         ELSE [files |-> files, log |-> console]

ProcessCodeToken(files, console, toks, i) ==
    ProcessResolved(files, console, i, toks[i].text, ResolvePath(toks, i))

---------------------------------------------------------------------------
(* The writer of runCli, src/src/index.ts:76-113, on a POSIX file system.  *)

\* s.split('/') without the empty segments
RECURSIVE SlashSegments(_)
SlashSegments(s) ==
    LET sep == {k \in 1..Len(s) : s[k] = "/"}
        rest == IF sep = {} THEN << >> ELSE SlashSegments(From(s, Min(sep) + 1))
        head == IF sep = {} THEN s ELSE SubSeq(s, 1, Min(sep) - 1)
    IN  IF s = << >> THEN << >>
        ELSE IF head = << >> THEN rest ELSE <<head>> \o rest

\* normalizeString of node's path.posix: resolves '.' and '..'
RECURSIVE ResolveDots(_, _, _)
ResolveDots(segs, stack, allowAboveRoot) ==
    IF segs = << >> THEN stack
    ELSE LET h == Head(segs) IN
         ResolveDots(Tail(segs),
            IF h = <<".">> THEN stack
            ELSE IF h = <<".", ".">>
                 THEN IF stack # << >> /\ stack[Len(stack)] # <<".", ".">>
                      THEN SubSeq(stack, 1, Len(stack) - 1)
                      ELSE IF allowAboveRoot THEN Append(stack, h) ELSE stack
                 ELSE Append(stack, h),
            allowAboveRoot)

RECURSIVE JoinSlash(_)
JoinSlash(segs) ==
    IF segs = << >> THEN << >>
    ELSE IF Len(segs) = 1 THEN segs[1]
    ELSE segs[1] \o <<"/">> \o JoinSlash(Tail(segs))

\* path.isAbsolute (posix)
IsAbsolute(p) == StartsWith(p, <<"/">>)

\* path.normalize (posix)
PathNormalize(p) ==
    LET body == JoinSlash(ResolveDots(SlashSegments(p), << >>, ~IsAbsolute(p)))
        trailing == EndsWith(p, <<"/">>)
    IN  IF p = << >> THEN <<".">>
        ELSE IF body = << >>
             THEN IF IsAbsolute(p) THEN <<"/">>
                  ELSE IF trailing THEN <<".", "/">> ELSE <<".">>
             ELSE (IF IsAbsolute(p) THEN <<"/">> ELSE << >>) \o body
                  \o (IF trailing THEN <<"/">> ELSE << >>)

\* index.ts:85: path.normalize(relPath).replace(/\\/g, '/')
WriterNormalize(relPath) == BackslashToSlash(PathNormalize(relPath))

\* index.ts:87-91
RejectsUnsafe(normalized) ==
    \/ StartsWith(normalized, <<".", ".", "/">>)
    \/ StartsWith(normalized, <<"/">>)
    \/ IsAbsolute(normalized)

\* path.resolve(process.cwd(), normalized) for a relative path, as a location
\* relative to the working directory: up levels above it, then segs below
ResolveAgainstCwd(normalized) ==
    LET segs == ResolveDots(SlashSegments(normalized), << >>, TRUE)
        ups == {k \in 1..Len(segs) : segs[k] = <<".", ".">>}
    IN  [up |-> Cardinality(ups), segs |-> SubSeq(segs, Cardinality(ups) + 1, Len(segs))]

\* path.dirname of a location
DirName(loc) ==
    IF loc.segs = << >> THEN [up |-> loc.up + 1, segs |-> << >>]
    ELSE [up |-> loc.up, segs |-> SubSeq(loc.segs, 1, Len(loc.segs) - 1)]

InsideCwd(loc) == loc.up = 0

\* the directories and the files the calls so far have created
Prefixes(loc) == {[up |-> loc.up, segs |-> SubSeq(loc.segs, 1, n)] : n \in 0..Len(loc.segs)}
CreatedDirs(ops) ==
    UNION {Prefixes(ops[k].target) : k \in {j \in 1..Len(ops) : ops[j].call = "mkdir" /\ ops[j].ok}}
CreatedFiles(ops) ==
    {ops[k].target : k \in {j \in 1..Len(ops) : ops[j].call = "writeFile" /\ ops[j].ok}}
\* the working directory and its ancestors exist; it holds nothing else at start
IsDirectory(ops, loc) == loc.segs = << >> \/ loc \in CreatedDirs(ops)
UnderFile(ops, loc) == \E f \in CreatedFiles(ops) : f \in Prefixes(loc) /\ f # loc

\* index.ts:97-99
ToWrite(content) ==
    IF content = << >> \/ content[Len(content)] = "\n" THEN content ELSE Append(content, "\n")

FsCall(call, target, ok, data) == [call |-> call, target |-> target, ok |-> ok, data |-> data]

\* fs.writeFile(abs, toWrite): refused on a directory, below a file, or by a fault
WriteFileAt(ops, cnt, abs, data, fault) ==
    IF fault # "writeFile" /\ ~IsDirectory(ops, abs) /\ ~UnderFile(ops, abs)
    THEN [ops |-> Append(ops, FsCall("writeFile", abs, TRUE, data)),
          cnt |-> [cnt EXCEPT !.written = @ + 1]]
    ELSE [ops |-> Append(ops, FsCall("writeFile", abs, FALSE, data)),
          cnt |-> [cnt EXCEPT !.errors = @ + 1]]

\* ensureDirectoryExists (index.ts:30-42) then the write (index.ts:95-107)
EnsureDirThenWrite(ops, cnt, abs, dirname, data, fault) ==
    IF IsDirectory(ops, dirname) \/ dirname \in CreatedFiles(ops)
    THEN WriteFileAt(ops, cnt, abs, data, fault)               \* fs.access succeeds
    ELSE IF UnderFile(ops, dirname)                            \* ENOTDIR is rethrown
         THEN [ops |-> Append(ops, FsCall("access", dirname, FALSE, << >>)),
               cnt |-> [cnt EXCEPT !.errors = @ + 1]]
    ELSE IF fault # "mkdir"
         THEN WriteFileAt(Append(ops, FsCall("mkdir", dirname, TRUE, << >>)),
                          cnt, abs, data, fault)
         ELSE [ops |-> Append(ops, FsCall("mkdir", dirname, FALSE, << >>)),
               cnt |-> [cnt EXCEPT !.errors = @ + 1]]

WriteResolved(ops, cnt, abs, data, fault) ==
    EnsureDirThenWrite(ops, cnt, abs, DirName(abs), data, fault)

\* index.ts:84-108: one iteration of the loop over filesToWrite.entries();
\* fault is what the file system refuses: "none", "mkdir" or "writeFile"
WriteNormalized(ops, cnt, normalized, data, fault) ==
    IF RejectsUnsafe(normalized)
    THEN [ops |-> ops, cnt |-> [cnt EXCEPT !.errors = @ + 1]]
    ELSE WriteResolved(ops, cnt, ResolveAgainstCwd(normalized), data, fault)

WriteEntry(ops, cnt, e, fault) ==
    WriteNormalized(ops, cnt, WriterNormalize(e.path), ToWrite(e.content), fault)

\* a summary that ignores the error counter
SummaryExitCode_AlwaysZero(errors) == 0

\* index.ts:112-113
SummaryExitCode(errors) == IF errors > 0 THEN 1 ELSE 0

---------------------------------------------------------------------------
(* Harness for the pure functions: the argument is drawn in Init, one      *)
(* action applies the function.                                            *)

\* candidates are concatenations of at most MaxPieces of these pieces
MaxPieces == 3
PathPieces ==
    { <<".", ".">>, <<"/">>, <<"\\">>, <<".">>, <<"a">>, <<" ">>, <<"C", ":">>,
      <<"h","t","t","p",":">>, <<"F","T","P",":">> }

RECURSIVE Concats(_, _)
Concats(P, n) ==
    IF n = 0 THEN { << >> }
    ELSE LET shorter == Concats(P, n - 1)
         IN  shorter \cup { s \o p : s \in shorter, p \in P }

\* ret is << >> until the function has been applied, then <<result>>
Pending == << >>

IdleParser ==
    /\ pc = "idle" /\ input = << >> /\ remaining = << >> /\ tokens = << >> /\ idx = 0
    /\ filesToWrite = << >> /\ log = << >>
IdleCli ==
    /\ fsOps = << >>
    /\ counters = [written |-> 0, errors |-> 0, cursor |-> 0, faults |-> 0]
    /\ exitCode = -1
    /\ writePromises = << >>
IdleOracle == oracle = [pc |-> "idle"]
IdleRegex == lastIndex = RegexInitial

\* contents are concatenations of at most MaxPieces of these pieces
ContentPieces == { <<"\n">>, <<"\r", "\n">>, <<"a">>, <<" ">> }

InitFn ==
    /\ \/ fn = "isValidPathCandidate" /\ arg \in Concats(PathPieces, MaxPieces)
       \/ fn = "CleanExplicitContent" /\ arg \in Concats(ContentPieces, MaxPieces)
    /\ ret = Pending
    /\ IdleParser /\ IdleCli /\ IdleOracle /\ IdleRegex

ApplyIsValidPathCandidate ==
    /\ fn = "isValidPathCandidate" /\ ret = Pending
    /\ ret' = <<isValidPathCandidate(arg)>>
    /\ UNCHANGED <<fn, arg, lastIndex, parserVars, cliVars, oracle>>

\* parser.ts:70-72 on the group (?<content>.*?) of a match
ApplyCleanExplicitContent ==
    /\ fn = "CleanExplicitContent" /\ ret = Pending
    /\ ret' = <<CleanExplicitContent(arg)>>
    /\ UNCHANGED <<fn, arg, lastIndex, parserVars, cliVars, oracle>>

NextFn == ApplyIsValidPathCandidate \/ ApplyCleanExplicitContent
SpecFn == InitFn /\ [][NextFn]_vars

\* the segments of a path, split at '/' and '\'
RECURSIVE Segments(_)
Segments(s) ==
    LET sep == {k \in 1..Len(s) : s[k] \in {"/", "\\"}}
    IN  IF sep = {} THEN <<s>>
        ELSE <<SubSeq(s, 1, Min(sep) - 1)>> \o Segments(From(s, Min(sep) + 1))

HasTraversalSegment(s) ==
    \E k \in 1..Len(Segments(s)) : Segments(s)[k] = <<".", ".">>

\* what the claim calls unsafe, judged on the trimmed candidate
UnsafeCandidate(c) ==
    LET t == Trim(c)
    IN  \/ HasTraversalSegment(t)
        \/ StartsWith(t, <<"/">>)
        \/ (Len(t) >= 2 /\ t[1] \in Lower \cup Upper /\ t[2] = ":")
        \/ HasUrlScheme(t)

\* C3: the validator returns invalid for every candidate that contains a '..'
\* segment, has a leading '/', a drive-letter prefix or a URL scheme.
C3_PathSafety ==
    (fn = "isValidPathCandidate" /\ ret # Pending /\ UnsafeCandidate(arg)) => ret = <<FALSE>>


---------------------------------------------------------------------------
(* runCli of src/src/index.ts:45-113 with the passes of parser.ts: the     *)
(* input is drawn in Init, every stage is one action, the loops over the   *)
(* tokens and over the map entries are stepped one iteration at a time.    *)

MaxSpans == 2
MaxFaults == 1

\* the spans the inputs are built from
SpanVocabulary ==
    { \* /* START OF a.ts */\n\nC1\n\n/* END OF a.ts */
      [kind |-> "comment", path |-> <<"a",".","t","s">>, endPath |-> <<"a",".","t","s">>,
       content |-> <<"\n","C","1","\n">>, inner |-> << >>],
      \* <file path="a.ts">T1</file>
      [kind |-> "tag", path |-> <<"a",".","t","s">>, endPath |-> << >>, content |-> <<"T","1">>,
       inner |-> << >>],
      \* <file path="..">T2</file>
      [kind |-> "tag", path |-> <<".",".">>, endPath |-> << >>, content |-> <<"T","2">>,
       inner |-> << >>],
      \* /* START OF a.ts */\nC2\n/* END OF b.ts */
      [kind |-> "comment", path |-> <<"a",".","t","s">>, endPath |-> <<"b",".","t","s">>,
       content |-> <<"C","2">>, inner |-> << >>],
      \* /* START OF a$&.ts */ and END OF a$&.ts around a fenced block whose
      \* first line is // c.ts
      [kind |-> "comment", path |-> <<"a","$","&",".","t","s">>,
       endPath |-> <<"a","$","&",".","t","s">>,
       content |-> FenceLine \o <<"\n","/","/"," ","c",".","t","s","\n","z","\n">> \o FenceLine,
       inner |-> <<[type |-> "code", text |-> <<"/","/"," ","c",".","t","s","\n","z">>]>>],
      \* <file path=" ">T3</file>
      [kind |-> "tag", path |-> <<" ">>, endPath |-> << >>, content |-> <<"T","3">>,
       inner |-> << >>],
      \* <file path="d//e.ts">T4</file>
      [kind |-> "tag", path |-> <<"d","/","/","e",".","t","s">>, endPath |-> << >>,
       content |-> <<"T","4">>, inner |-> << >>],
      \* a paragraph that is a path: a.ts
      [kind |-> "md", type |-> "paragraph", text |-> <<"a",".","t","s">>],
      \* ## File: b.ts
      [kind |-> "md", type |-> "heading", text |-> <<"F","i","l","e",":"," ","b",".","t","s">>],
      \* a paragraph that is a path without an extension: d/m
      [kind |-> "md", type |-> "paragraph", text |-> <<"d","/","m">>],
      \* a paragraph of prose
      [kind |-> "md", type |-> "paragraph", text |-> <<"S","e","e"," ","b","e","l","o","w",":">>],
      \* blank lines
      [kind |-> "md", type |-> "space", text |-> <<"\n", "\n">>],
      \* - **`b.ts`**
      [kind |-> "md", type |-> "list_item", text |-> <<"*","*",Tick,"b",".","t","s",Tick,"*","*">>],
      \* a fenced block without any path, 21 characters
      [kind |-> "md", type |-> "code", text |-> <<"l","e","t"," ","x"," ","="," ","1",";","\n","l","e","t"," ","y"," ","="," ","2",";">>],
      \* a fenced block without any path, 5 characters
      [kind |-> "md", type |-> "code", text |-> <<"x"," ","="," ","1">>],
      \* a fenced block that opens with a header comment naming b.ts
      [kind |-> "md", type |-> "code", text |-> <<"/","*","\n"," ","*"," ","b",".","t","s","\n"," ","*","/","\n","l","e","t"," ","z",";">>],
      \* a fenced block whose first line is // a.ts
      [kind |-> "md", type |-> "code", text |-> <<"/","/"," ","a",".","t","s","\n","l","e","t"," ","w"," ","="," ","3",";">>],
      \* a fenced block whose first line is // ..\e.ts
      [kind |-> "md", type |-> "code", text |-> <<"/","/"," ",".",".","\\","e",".","t","s","\n","q">>],
      \* a fenced block whose first line is # a.ts
      [kind |-> "md", type |-> "code", text |-> <<"#"," ","a",".","t","s","\n","v">>] }

RECURSIVE SeqsUpTo(_, _)
SeqsUpTo(S, n) ==
    IF n = 0 THEN { << >> }
    ELSE LET shorter == SeqsUpTo(S, n - 1)
         IN  shorter \cup { Append(q, x) : q \in {r \in shorter : Len(r) = n - 1}, x \in S }

Init ==
    /\ fn = "none" /\ arg = << >> /\ ret = Pending
    /\ pc = "read"
    /\ input \in SeqsUpTo(SpanVocabulary, MaxSpans)
    /\ remaining = << >> /\ tokens = << >> /\ idx = 0
    /\ filesToWrite = << >> /\ log = << >>
    /\ IdleCli /\ IdleOracle /\ IdleRegex

\* the assignments a pass makes
ExplicitResult(r) == remaining' = r.remaining /\ filesToWrite' = r.files /\ log' = r.log
MarkdownResult(r) == filesToWrite' = r.files /\ log' = r.log
WriteResult(r, fault) ==
    /\ fsOps' = r.ops
    /\ counters' = [r.cnt EXCEPT !.cursor = @ + 1,
                                 !.faults = IF fault = "none" THEN @ ELSE @ + 1]
    \* a refusal is a fault only where the call is made and would have succeeded
    /\ fault # "none" =>
         /\ r.cnt.errors > counters.errors
         /\ r.ops # << >> /\ r.ops[Len(r.ops)].call = fault

\* index.ts:49: !originalInput.trim(), the input holds nothing but white space
IsBlankInput(in) == \A k \in 1..Len(in) : in[k].kind = "md" /\ in[k].type = "space"

\* index.ts:50-53: no input
RejectEmptyInput ==
    /\ pc = "read" /\ IsBlankInput(input)
    /\ pc' = "exited" /\ exitCode' = 1
    /\ log' = Append(log, [level |-> "error", msg |-> "No input received", path |-> Null,
                           by |-> "runCli", token |-> 0])
    /\ UNCHANGED <<fnVars, lastIndex, input, remaining, tokens, idx, filesToWrite, fsOps, counters,
                 writePromises, oracle>>

\* index.ts:55-61
ExtractCommentBlocks ==
    /\ pc = "read" /\ ~IsBlankInput(input)
    /\ ExplicitResult(extractExplicitBlocksFrom(input, CommentBlock, filesToWrite, log,
                                                lastIndex[CommentBlock]))
    /\ lastIndex' = AfterMatchAll(lastIndex, CommentBlock, input)
    /\ pc' = "tags"
    /\ UNCHANGED <<fnVars, input, tokens, idx, cliVars, oracle>>

\* index.ts:63-69
ExtractTagBlocks ==
    /\ pc = "tags"
    /\ ExplicitResult(extractExplicitBlocksFrom(remaining, TagBlock, filesToWrite, log,
                                                lastIndex[TagBlock]))
    /\ lastIndex' = AfterMatchAll(lastIndex, TagBlock, remaining)
    /\ pc' = "lex"
    /\ UNCHANGED <<fnVars, input, tokens, idx, cliVars, oracle>>

\* parser.ts:259-265, the lexer returns
LexMarkdown ==
    /\ pc = "lex"
    /\ tokens' = Lex(remaining) /\ idx' = 1
    /\ pc' = "markdown"
    /\ UNCHANGED <<fnVars, lastIndex, input, remaining, filesToWrite, log, cliVars, oracle>>

\* a catch that hands back an emptied map
LexErrorResult_Clears(files, console) ==
    [files |-> << >>,
     log |-> Append(console, [level |-> "error", msg |-> "Error parsing Markdown",
                              path |-> Null, by |-> MarkdownBlock, token |-> 0])]

\* parser.ts:262-265: the catch logs the error and returns
LexErrorResult(files, console) ==
    [files |-> files,
     log |-> Append(console, [level |-> "error", msg |-> "Error parsing Markdown",
                              path |-> Null, by |-> MarkdownBlock, token |-> 0])]

\* parser.ts:259-265, the lexer throws
LexThrows ==
    /\ pc = "lex"
    /\ MarkdownResult(LexErrorResult(filesToWrite, log))
    /\ pc' = "write"
    /\ UNCHANGED <<fnVars, lastIndex, input, remaining, tokens, idx, cliVars, oracle>>

\* parser.ts:269-423, one iteration of the loop over the tokens
MarkdownToken ==
    /\ pc = "markdown" /\ idx <= Len(tokens)
    /\ IF tokens[idx].type = "code"
       THEN MarkdownResult(ProcessCodeToken(filesToWrite, log, tokens, idx))
       ELSE UNCHANGED <<filesToWrite, log>>
    /\ idx' = idx + 1
    /\ UNCHANGED <<fnVars, lastIndex, pc, input, remaining, tokens, cliVars, oracle>>

\* the loop ends and extractMarkdownBlocksWithParser returns
MarkdownDone ==
    /\ pc = "markdown" /\ idx > Len(tokens)
    /\ pc' = "write"
    /\ UNCHANGED <<fnVars, lastIndex, input, remaining, tokens, idx, filesToWrite, log, cliVars, oracle>>

\* index.ts:79-82
ExitNoFiles ==
    /\ pc = "write" /\ Len(filesToWrite) = 0
    /\ log' = Append(log, [level |-> "warn", msg |-> "No files identified", path |-> Null,
                           by |-> "runCli", token |-> 0])
    /\ pc' = "exited" /\ exitCode' = 0
    /\ UNCHANGED <<fnVars, lastIndex, input, remaining, tokens, idx, filesToWrite, fsOps, counters,
                 writePromises, oracle>>

\* index.ts:84-108, one iteration of the loop over the entries
WriteFileEntry ==
    /\ pc = "write" /\ counters.cursor < Len(filesToWrite)
    /\ \E fault \in {"none", "mkdir", "writeFile"} :
         /\ fault # "none" => counters.faults < MaxFaults
         /\ WriteResult(WriteEntry(fsOps, counters, filesToWrite[counters.cursor + 1], fault), fault)
    /\ UNCHANGED <<fnVars, lastIndex, parserVars, exitCode, writePromises, oracle>>

\* index.ts:110-112
ExitSummary ==
    /\ pc = "write" /\ Len(filesToWrite) > 0 /\ counters.cursor = Len(filesToWrite)
    /\ pc' = "exited"
    /\ exitCode' = SummaryExitCode(counters.errors)
    /\ UNCHANGED <<fnVars, lastIndex, input, remaining, tokens, idx, filesToWrite, log, fsOps,
                 counters, writePromises, oracle>>

Next ==
    \/ RejectEmptyInput
    \/ ExtractCommentBlocks
    \/ ExtractTagBlocks
    \/ LexMarkdown
    \/ LexThrows
    \/ MarkdownToken
    \/ MarkdownDone
    \/ ExitNoFiles
    \/ WriteFileEntry
    \/ ExitSummary

Spec == Init /\ [][Next]_vars

---------------------------------------------------------------------------
(* extractExplicitBlocks called on its own, in the revision of             *)
(* src/src/parser.ts and in the revision that ships with the oracle        *)
(* (part_011:152-178).                                                     *)

RevParser == "src/src/parser.ts"
RevOracleParser == "src/unnamed/part_011"

\* part_011:161-174: one iteration; a match without a path is passed over in
\* silence, and an entry is replaced without a warning
ExplicitMatchAt011(st, fullMatch, formatName, p, c) ==
    IF p # Null
    THEN [StoreExplicit(st, fullMatch, formatName, BackslashToSlash(p),
                        CleanExplicitContent(c)) EXCEPT !.log = st.log]
    ELSE st

RECURSIVE ExplicitLoop011(_, _, _, _, _)
ExplicitLoop011(st, in, matches, n, formatName) ==
    IF n > Len(matches) THEN st
    ELSE ExplicitLoop011(
            ExplicitMatchAt011(st, SubSeq(in, matches[n].from, matches[n].to), formatName,
                               Trim(in[matches[n].from].path),
                               MatchContent(in, matches[n].from, matches[n].to)),
            in, matches, n + 1, formatName)

extractExplicitBlocksOf(rev, in, formatName, files, console) ==
    IF rev = RevParser THEN extractExplicitBlocks(in, formatName, files, console)
    ELSE ExplicitLoop011([remaining |-> in, files |-> files, log |-> console],
                         in, MatchAll(in, 1, formatName), 1, formatName)

InitExplicit ==
    /\ fn = "extractExplicitBlocks"
    /\ arg \in [rev : {RevParser, RevOracleParser}, formatName : {CommentBlock, TagBlock},
                 input : SeqsUpTo(SpanVocabulary, MaxSpans)]
    /\ ret = Pending
    /\ IdleParser /\ IdleCli /\ IdleOracle /\ IdleRegex

ApplyExtractExplicitBlocks ==
    /\ fn = "extractExplicitBlocks" /\ ret = Pending
    /\ ret' = <<extractExplicitBlocksOf(arg.rev, arg.input, arg.formatName, << >>, << >>)>>
    /\ UNCHANGED <<fn, arg, lastIndex, parserVars, cliVars, oracle>>

NextExplicit == ApplyExtractExplicitBlocks
SpecExplicit == InitExplicit /\ [][NextExplicit]_vars

---------------------------------------------------------------------------
(* parseInput of src/__tests__/index.test.ts:196-202, the three passes as  *)
(* one call on a fresh map; the tests call it again and again in one       *)
(* process, with the regular expressions of the module shared by the calls.*)

MaxRuns == 2

\* parser.ts:269-423: the loop over the tokens
RECURSIVE MarkdownLoop(_, _, _)
MarkdownLoop(st, toks, i) ==
    IF i > Len(toks) THEN st
    ELSE MarkdownLoop(IF toks[i].type = "code"
                      THEN ProcessCodeToken(st.files, st.log, toks, i) ELSE st,
                      toks, i + 1)

\* parser.ts:252-424
extractMarkdownBlocksWithParser(markdownInput, files, console) ==
    MarkdownLoop([files |-> files, log |-> console], Lex(markdownInput), 1)

ParseReturn(processedInput, m) ==
    [files |-> m.files, remaining |-> processedInput, log |-> m.log]
ParseMarkdown(t) ==
    ParseReturn(t.remaining, extractMarkdownBlocksWithParser(t.remaining, t.files, t.log))
ParseTags(c, li) ==
    ParseMarkdown(extractExplicitBlocksFrom(c.remaining, TagBlock, c.files, c.log, li[TagBlock]))
parseInput(inputText, li) ==
    ParseTags(extractExplicitBlocksFrom(inputText, CommentBlock, << >>, << >>,
                                        li[CommentBlock]), li)

InitRerun ==
    /\ fn = "parseInput"
    /\ arg \in SeqsUpTo(SpanVocabulary, MaxSpans)
    /\ ret = << >>
    /\ IdleParser /\ IdleCli /\ IdleOracle /\ IdleRegex

\* one more call of parseInput on the same text
CallParseInput ==
    /\ fn = "parseInput" /\ Len(ret) < MaxRuns
    /\ ret' = Append(ret, parseInput(arg, lastIndex))
    /\ lastIndex' = AfterMatchAll(AfterMatchAll(lastIndex, CommentBlock, arg), TagBlock, arg)
    /\ UNCHANGED <<fn, arg, parserVars, cliVars, oracle>>

NextRerun == CallParseInput
SpecRerun == InitRerun /\ [][NextRerun]_vars

---------------------------------------------------------------------------
(* runCli on a text in which one construct encloses others: a fenced code  *)
(* block, a <file> element or a comment-delimited block, for a.ts or for   *)
(* ./a.ts, whose opening and closing lines stand alone, blank lines apart  *)
(* from the spans between them, and a node or a block in front of it.      *)

ATs == <<"a",".","t","s">>
DotATs == <<".","/","a",".","t","s">>
Openings ==
    { [kind |-> "fence"] }
    \cup { [kind |-> "tagOpen", path |-> p] : p \in {ATs, DotATs} }
    \cup { [kind |-> "commentStart", path |-> p] : p \in {ATs, DotATs} }
Closings ==
    { [kind |-> "fence"], [kind |-> "tagClose"] }
    \cup { [kind |-> "commentEnd", endPath |-> p] : p \in {ATs, DotATs} }
\* the blocks for a.ts of both syntaxes
BlocksForATs ==
    { span \in SpanVocabulary :
        /\ span.kind \in {"comment", "tag"}
        /\ span.path = ATs /\ span.endPath \in {<< >>, ATs} }
\* the spans that are enclosed: the blocks for a.ts and two paragraphs, none
\* of which holds a fence line
EnclosedVocabulary ==
    BlocksForATs
    \cup { span \in SpanVocabulary :
             /\ span.kind = "md" /\ span.type = "paragraph"
             /\ span.text \in {ATs, <<"S","e","e"," ","b","e","l","o","w",":">>} }
\* what stands in front: nothing, a block for a.ts, the heading File: b.ts
InFront ==
    { << >> } \cup { <<span>> : span \in BlocksForATs }
    \cup { <<span>> : span \in {v \in SpanVocabulary : v.kind = "md" /\ v.type = "heading"} }
NestedTexts ==
    { << >> }
    \cup { front \o <<open>> \o body \o <<close>> :
             front \in InFront, open \in Openings,
             body \in SeqsUpTo(EnclosedVocabulary, MaxSpans), close \in Closings }

InitNested ==
    /\ fn = "none" /\ arg = << >> /\ ret = Pending
    /\ pc = "read"
    /\ input \in NestedTexts
    /\ remaining = << >> /\ tokens = << >> /\ idx = 0
    /\ filesToWrite = << >> /\ log = << >>
    /\ IdleCli /\ IdleOracle /\ IdleRegex

SpecNested == InitNested /\ [][Next]_vars

---------------------------------------------------------------------------
(* The path cascade of extractMarkdownBlocksWithParser applied to one      *)
(* fenced block, in the revision of src/src/parser.ts (four strategies)    *)
(* and in the revision with the front-matter strategy (part_012:290-373).  *)
(* The argument is a token array as marked.lexer hands it over: a node, a  *)
(* run of blank or list-end nodes, a node, and the code token.             *)

RevFrontMatter == "src/unnamed/part_012"

\* yamlFrontMatterPathRegex (part_012:47): /^\s*---\s*path:\s*(\S+)\s*---/s,
\* the greedy \S+ gives back characters until --- can follow
YamlFrontMatterCapture(s) ==
    LET a == SkipWs(s, 1)
        b == SkipWs(s, a + 3)
        p == SkipWs(s, b + 5)
        ends == {e \in p..RunEnd(s, p) : StartsWithAt(s, SkipWs(s, e + 1), <<"-","-","-">>)}
    IN  IF /\ StartsWithAt(s, a, <<"-","-","-">>)
           /\ StartsWithAt(s, b, <<"p","a","t","h",":">>)
           /\ ends # {}
        THEN SubSeq(s, p, Max(ends)) ELSE Null

\* part_012:180-196
extractPathFromYamlFrontMatter(text) ==
    IF text = Null THEN Null ELSE ValidCapture(YamlFrontMatterCapture(text))

\* "Filepath Marker" (part_012:41): /^\s*(?:\/\/|#)\s*filepath:\s*(\S+)\s*$/
FilepathMarkerCapture(s) ==
    LET a == SkipWs(s, 1)
        m == IF StartsWithAt(s, a, <<"/", "/">>) THEN SkipWs(s, a + 2)
             ELSE IF StartsWithAt(s, a, <<"#">>) THEN SkipWs(s, a + 1) ELSE 0
        p == SkipWs(s, m + 9)
    IN  IF /\ m # 0 /\ StartsWithAt(s, m, <<"f","i","l","e","p","a","t","h",":">>)
           /\ p <= Len(s) /\ AllWs(s, RunEnd(s, p) + 1)
        THEN SubSeq(s, p, RunEnd(s, p)) ELSE Null

\* firstLineCommentPathPatterns of part_012:34-42
FirstLineCaptures012(t) == Append(FirstLineCaptures(t), FilepathMarkerCapture(t))

\* part_012:229-251
FirstLinePath012(firstLine) ==
    IF firstLine = << >> THEN Null
    ELSE FirstValidCapture(FirstLineCaptures012(Trim(firstLine)))
extractPathFromFirstLineComment012(codeContent) ==
    IF codeContent = Null THEN Null ELSE FirstLinePath012(SplitLines(codeContent)[1])

\* token.raw: the source text the token was lexed from
RawOf(tok) == MdSource(tok.type, tok.text)

\* part_012:301-310
FrontMatterPathAt(toks, j) ==
    IF j = 0 THEN Null ELSE extractPathFromYamlFrontMatter(RawOf(toks[j]))

StrategyNames012 ==
    <<"YAML Front Matter", "Preceding Token", "Header Comment Block", "List Item",
      "First Line Comment">>

\* part_012:290-373: the cascade
ResolveCode012(toks, i, codeContent) ==
    FirstFound(<< FrontMatterPathAt(toks, PrecedingTokenIndex(toks, i)),
                  PrecedingTokenPath(toks, i),
                  extractPathFromHeaderCommentBlock(codeContent),
                  ListItemPath(toks, i, i - 1),
                  extractPathFromFirstLineComment012(codeContent) >>, StrategyNames012)

ResolvePathOf(rev, toks, i) ==
    IF rev = RevParser THEN ResolvePath(toks, i) ELSE ResolveCode012(toks, i, toks[i].text)

MdToken(type, text) == [type |-> type, text |-> text, consumed |-> FALSE]

\* the nodes that can stand before the fenced block
NodeVocabulary ==
    { \* --- path: f.ts ---
      MdToken("paragraph", <<"-","-","-"," ","p","a","t","h",":"," ","f",".","t","s"," ","-","-","-">>),
      \* p.ts
      MdToken("paragraph", <<"p",".","t","s">>),
      \* See below:
      MdToken("paragraph", <<"S","e","e"," ","b","e","l","o","w",":">>),
      \* `http://x.y`
      MdToken("paragraph", <<Tick,"h","t","t","p",":","/","/","x",".","y",Tick>>),
      \* #File: `q.ts` x.
      MdToken("paragraph", <<"#","F","i","l","e",":"," ",Tick,"q",".","t","s",Tick," ","x",".">>),
      \* ## File: b.ts
      MdToken("heading", <<"F","i","l","e",":"," ","b",".","t","s">>),
      \* - **`l.ts`**
      MdToken("list_item", <<"*","*",Tick,"l",".","t","s",Tick,"*","*">>),
      \* - **`..`**
      MdToken("list_item", <<"*","*",Tick,".",".",Tick,"*","*">>),
      \* - item
      MdToken("list_item", <<"i","t","e","m">>) }

\* the nodes the list-item walk steps over
FillerVocabulary ==
    { MdToken("space", <<"\n", "\n">>), MdToken("list_end", << >>) }

\* the fenced blocks
CodeVocabulary ==
    { \* x = 1
      MdToken("code", <<"x"," ","="," ","1">>),
      \* /*\n * h.ts\n */\nz
      MdToken("code", <<"/","*","\n"," ","*"," ","h",".","t","s","\n"," ","*","/","\n","z">>),
      \* /*\n * ..\n * h.ts\n */
      MdToken("code", <<"/","*","\n"," ","*"," ",".",".","\n"," ","*"," ","h",".","t","s","\n"," ","*","/">>),
      \* // c.ts\nz
      MdToken("code", <<"/","/"," ","c",".","t","s","\n","z">>),
      \* // ../c.ts\nz
      MdToken("code", <<"/","/"," ",".",".","/","c",".","t","s","\n","z">>),
      \* // filepath: c.ts\nz
      MdToken("code", <<"/","/"," ","f","i","l","e","p","a","t","h",":"," ","c",".","t","s","\n","z">>) }

\* the walk of parser.ts:321 reaches ListLookback tokens back: the far node
\* stands up to one token beyond its reach
MaxGap == ListLookback

OptionalNode == { << >> } \cup { <<t>> : t \in NodeVocabulary }
Fillers == { [k \in 1..n |-> f] : n \in 0..MaxGap, f \in FillerVocabulary }
TokenArrays ==
    { far \o gap \o near \o <<code>> :
        far \in OptionalNode, gap \in Fillers, near \in OptionalNode, code \in CodeVocabulary }

InitLocate ==
    /\ fn = "locate"
    /\ arg \in [rev : {RevParser, RevFrontMatter}, tokens : TokenArrays]
    /\ ret = Pending
    /\ IdleParser /\ IdleCli /\ IdleOracle /\ IdleRegex

\* parser.ts:278-367 / part_012:290-373 for the code token that ends the array
ApplyLocate ==
    /\ fn = "locate" /\ ret = Pending
    /\ ret' = <<ResolvePathOf(arg.rev, arg.tokens, Len(arg.tokens))>>
    /\ UNCHANGED <<fn, arg, lastIndex, parserVars, cliVars, oracle>>

NextLocate == ApplyLocate
SpecLocate == InitLocate /\ [][NextLocate]_vars

---------------------------------------------------------------------------
(* stripOuterMarkdownFences, src/src/utils.ts:54-84, applied to a text     *)
(* given as lines.                                                         *)

\* content.split('\n')
RECURSIVE SplitAtNewline(_)
SplitAtNewline(s) ==
    LET nl == {k \in 1..Len(s) : s[k] = "\n"}
    IN  IF nl = {} THEN <<s>>
        ELSE <<SubSeq(s, 1, Min(nl) - 1)>> \o SplitAtNewline(From(s, Min(nl) + 1))

\* lines.join('\n')
RECURSIVE JoinLines(_)
JoinLines(lines) ==
    IF lines = << >> THEN << >>
    ELSE IF Len(lines) = 1 THEN lines[1]
    ELSE lines[1] \o <<"\n">> \o JoinLines(Tail(lines))

\* String.prototype.trimEnd
TrimEnd(s) ==
    LET keep == {k \in 1..Len(s) : ~IsWs(s[k])}
    IN  IF keep = {} THEN << >> ELSE SubSeq(s, 1, Max(keep))

\* openingFenceRegex (utils.ts:62): /^```([\w.-]+)?\s*$/
IsOpeningFence(firstLine) ==
    LET stop == {k \in 4..Len(firstLine) : ~(IsWord(firstLine[k]) \/ firstLine[k] \in {".", "-"})}
        rest == IF stop = {} THEN Len(firstLine) + 1 ELSE Min(stop)
    IN  StartsWith(firstLine, FenceLine) /\ AllWs(firstLine, rest)

\* utils.ts:58-64
IsFenced(lines) ==
    /\ Len(lines) >= 2
    /\ IsOpeningFence(TrimEnd(lines[1]))
    /\ Trim(lines[Len(lines)]) = FenceLine

\* a result that is trimmed as one string
InnerLines_Trimmed(contentLines) == SplitAtNewline(Trim(JoinLines(contentLines)))

\* utils.ts:69-78: the two while loops
InnerLines(contentLines) ==
    LET full == {k \in 1..Len(contentLines) : Trim(contentLines[k]) # << >>}
    IN  IF full = {} THEN << >> ELSE SubSeq(contentLines, Min(full), Max(full))

\* utils.ts:66-79
StripFenced(lines) == JoinLines(InnerLines(SubSeq(lines, 2, Len(lines) - 1)))

\* utils.ts:54-84
StripLines(content, lines) == IF IsFenced(lines) THEN StripFenced(lines) ELSE content
stripOuterMarkdownFences(content) == StripLines(content, SplitAtNewline(content))

MaxLines == 5

\* the lines the texts are made of
LineVocabulary ==
    { FenceLine,                                   \* ```
      FenceLine \o <<"a", "-", ".">>,              \* ```a-.
      FenceLine \o <<" ">>,                        \* a fence and a blank
      <<" ">> \o FenceLine,                        \* a blank and a fence
      << >>,                                       \* an empty line
      <<" ">>,                                     \* a line of white space
      <<" ", "x">> }                               \* an indented line

InitStrip ==
    /\ fn = "stripOuterMarkdownFences"
    /\ arg \in { JoinLines(lines) : lines \in SeqsUpTo(LineVocabulary, MaxLines) }
    /\ ret = Pending
    /\ IdleParser /\ IdleCli /\ IdleOracle /\ IdleRegex

ApplyStripOuterMarkdownFences ==
    /\ fn = "stripOuterMarkdownFences" /\ ret = Pending
    /\ ret' = <<stripOuterMarkdownFences(arg)>>
    /\ UNCHANGED <<fn, arg, lastIndex, parserVars, cliVars, oracle>>

NextStrip == ApplyStripOuterMarkdownFences
SpecStrip == InitStrip /\ [][NextStrip]_vars

---------------------------------------------------------------------------
(* getDirectoryStructure, part_009:96-144, on a POSIX file system.  The    *)
(* tree below baseDir is a set of paths, each a sequence of entry names;   *)
(* unreadable holds the directories whose readdir fails, baseDir is << >>. *)

\* part_009:100
IgnoredDirs ==
    { <<"n","o","d","e","_","m","o","d","u","l","e","s">>, <<".","g","i","t">>,
      <<"d","i","s","t">>, <<"b","u","i","l","d">> }

\* a filter that knows the four names only
IsIgnoredDir_NamesOnly(dirName) == dirName \in IgnoredDirs

\* part_009:119
IsIgnoredDir(dirName) == dirName \in IgnoredDirs \/ StartsWith(dirName, <<".">>)

\* the entry names of the trees, in the order readdir lists them; the last
\* one is a file, the others are directories
EntryNames ==
    << <<"s">>, <<"a","\\","b">>, <<"d","i","s","t">>, <<".","h">>, <<"f",".","t","x","t">> >>
FileNames == { <<"f",".","t","x","t">> }

\* Dirent.isDirectory (part_009:114)
EntryIsDirectory(name) == name \notin FileNames

\* fsAsync.readdir(currentPath, { withFileTypes: true }) when it succeeds
ReadDir(tree, currentPath) ==
    SelectSeq(EntryNames, LAMBDA name : Append(currentPath, name) \in tree)

\* part_009:124-126: path.relative(baseDir, fullPath).replace(/\\/g, '/')
RelativePath(below) == BackslashToSlash(JoinSlash(below))

ReadDirWarning(currentPath) ==
    [level |-> "warn", msg |-> "Could not read directory", path |-> currentPath,
     by |-> "scanDir", token |-> 0]

\* part_009:102-136
RECURSIVE scanDir(_, _, _)
RECURSIVE ScanEntries(_, _, _, _, _)
ScanEntry(fs, currentPath, name, st) ==
    IF ~EntryIsDirectory(name) \/ IsIgnoredDir(name) THEN st
    ELSE scanDir(fs, Append(currentPath, name),
                 IF RelativePath(Append(currentPath, name)) # << >>
                 THEN [st EXCEPT !.results = Append(@, RelativePath(Append(currentPath, name)))]
                 ELSE st)
ScanEntries(fs, currentPath, entries, k, st) ==
    IF k > Len(entries) THEN st
    ELSE ScanEntries(fs, currentPath, entries, k + 1, ScanEntry(fs, currentPath, entries[k], st))
scanDir(fs, currentPath, st) ==
    IF currentPath \in fs.unreadable
    THEN [st EXCEPT !.log = Append(@, ReadDirWarning(currentPath))]
    ELSE ScanEntries(fs, currentPath, ReadDir(fs.tree, currentPath), 1, st)

\* part_009:96-144
getDirectoryStructure(fs) == scanDir(fs, << >>, [results |-> << >>, log |-> << >>])

MaxEntries == 3

EntryNameSet == {EntryNames[k] : k \in 1..Len(EntryNames)}
DirectoriesOf(tree) == {q \in tree : EntryIsDirectory(q[Len(q)])}

\* the trees of at most n entries: every entry lies in baseDir or in a
\* directory of the tree
RECURSIVE Trees(_)
Trees(n) ==
    IF n = 0 THEN { {} }
    ELSE LET smaller == Trees(n - 1)
         IN  smaller \cup UNION { { t \cup {Append(q, name)} :
                                      q \in {<< >>} \cup DirectoriesOf(t),
                                      name \in EntryNameSet } : t \in smaller }

FileSystems ==
    UNION { [tree : {t}, unreadable : SUBSET ({<< >>} \cup DirectoriesOf(t))] : t \in Trees(MaxEntries) }

InitDirs ==
    /\ fn = "getDirectoryStructure"
    /\ arg \in FileSystems
    /\ ret = Pending
    /\ IdleParser /\ IdleCli /\ IdleOracle /\ IdleRegex

ApplyGetDirectoryStructure ==
    /\ fn = "getDirectoryStructure" /\ ret = Pending
    /\ ret' = <<getDirectoryStructure(arg)>>
    /\ UNCHANGED <<fn, arg, lastIndex, parserVars, cliVars, oracle>>

NextDirs == ApplyGetDirectoryStructure
SpecDirs == InitDirs /\ [][NextDirs]_vars

---------------------------------------------------------------------------
(* The writers on a map that the parser has handed over: the loop of       *)
(* src/src/index.ts:84-113, which awaits each write before the next, and   *)
(* the revision that starts every write and awaits them together           *)
(* (part_016:106-153).  A promise is at "mkdir" or at "writeFile" while    *)
(* that call is under way and "settled" with its value afterwards; the     *)
(* calls of different promises complete in any order.                      *)

RevSequentialWriter == "src/src/index.ts"
RevParallelWriter == "src/unnamed/part_016"

\* part_016:113
RejectsUnsafe016(relPath) == IsAbsolute(relPath) \/ StartsWith(relPath, <<".", ".">>)

\* part_016:119: path.resolve(process.cwd(), relPath)
Dest016(relPath) == ResolveAgainstCwd(relPath)

\* part_016:127-129
ContentToWrite016(content) ==
    IF EndsWith(content, <<"\n">>) THEN content ELSE Append(content, "\n")

WritePromise(entry, at, value) == [entry |-> entry, at |-> at, value |-> value]
IsSettled(promise) == promise.at = "settled"
\* a wait that ends with the first promise that settles
AllSettled_AnySettled(promises) ==
    promises = << >> \/ \E k \in 1..Len(promises) : IsSettled(promises[k])
\* Promise.all(writePromises): no promise rejects, so it resolves when the
\* last one has settled
AllSettled(promises) == \A k \in 1..Len(promises) : IsSettled(promises[k])
\* part_016:145-146: results.filter(...).length
CountResults(promises, value) ==
    Cardinality({k \in 1..Len(promises) : IsSettled(promises[k]) /\ promises[k].value = value})

\* part_016:111-117: the loop meets an entry it rejects
SkipUnsafe016 ==
    /\ pc = "launch" /\ counters.cursor < Len(filesToWrite)
    /\ RejectsUnsafe016(filesToWrite[counters.cursor + 1].path)
    /\ counters' = [counters EXCEPT !.errors = @ + 1, !.cursor = @ + 1]
    /\ log' = Append(log, LogEntry("error", "Skipping potentially unsafe path",
                                   filesToWrite[counters.cursor + 1].path, "runCli", 0))
    /\ UNCHANGED <<fnVars, lastIndex, pc, input, remaining, tokens, idx, filesToWrite, fsOps,
                   exitCode, writePromises, oracle>>

\* part_016:119-138: the loop starts the write of an entry; the function runs
\* up to its first await, with mkdir under way
StartWrite016 ==
    /\ pc = "launch" /\ counters.cursor < Len(filesToWrite)
    /\ ~RejectsUnsafe016(filesToWrite[counters.cursor + 1].path)
    /\ writePromises' = Append(writePromises, WritePromise(counters.cursor + 1, "mkdir", FALSE))
    /\ counters' = [counters EXCEPT !.cursor = @ + 1]
    /\ UNCHANGED <<fnVars, lastIndex, parserVars, fsOps, exitCode, oracle>>

\* part_016:142: the loop is over and runCli awaits Promise.all
AwaitAll016 ==
    /\ pc = "launch" /\ counters.cursor = Len(filesToWrite)
    /\ pc' = "await"
    /\ UNCHANGED <<fnVars, lastIndex, input, remaining, tokens, idx, filesToWrite, log, cliVars,
                   oracle>>

\* fsPromises.mkdir(dirname, { recursive: true }): refused by a fault, on a
\* file, or below a file
MkdirSucceeds(ops, dirname, fault) ==
    fault # "mkdir" /\ dirname \notin CreatedFiles(ops) /\ ~UnderFile(ops, dirname)
WriteFileSucceeds(ops, dest, fault) ==
    fault # "writeFile" /\ ~IsDirectory(ops, dest) /\ ~UnderFile(ops, dest)

FaultAllowed(fault) == fault # "none" => counters.faults < MaxFaults
CountFault(cnt, fault) == [cnt EXCEPT !.faults = IF fault = "none" THEN @ ELSE @ + 1]
ErrorWriting(console, relPath) ==
    Append(console, LogEntry("error", "Error writing", relPath, "runCli", 0))

\* the promises with promise k moved on
PromiseMoved(promises, k, at, value) ==
    [promises EXCEPT ![k] = WritePromise(promises[k].entry, at, value)]

\* part_016:125, 133-136: mkdir of promise k completes; the write is started,
\* or the catch settles the promise with false
MkdirSettlesFor(k, dirname, ok, fault) ==
    /\ fsOps' = Append(fsOps, FsCall("mkdir", dirname, ok, << >>))
    /\ writePromises' = PromiseMoved(writePromises, k, IF ok THEN "writeFile" ELSE "settled", FALSE)
    /\ log' = IF ok THEN log ELSE ErrorWriting(log, filesToWrite[writePromises[k].entry].path)
    /\ counters' = CountFault(counters, fault)
    \* a refusal is a fault only where the call would have succeeded
    /\ fault # "none" => MkdirSucceeds(fsOps, dirname, "none")
MkdirSettles016 ==
    /\ pc = "await"
    /\ \E k \in 1..Len(writePromises), fault \in {"none", "mkdir"} :
         /\ writePromises[k].at = "mkdir" /\ FaultAllowed(fault)
         /\ MkdirSettlesFor(k, DirName(Dest016(filesToWrite[writePromises[k].entry].path)),
                            MkdirSucceeds(fsOps,
                                DirName(Dest016(filesToWrite[writePromises[k].entry].path)), fault),
                            fault)
    /\ UNCHANGED <<fnVars, lastIndex, pc, input, remaining, tokens, idx, filesToWrite, exitCode,
                   oracle>>

\* part_016:130-136: writeFile of promise k completes and the promise settles
WriteFileSettlesFor(k, e, dest, ok, fault) ==
    /\ fsOps' = Append(fsOps, FsCall("writeFile", dest, ok, ContentToWrite016(e.content)))
    /\ writePromises' = PromiseMoved(writePromises, k, "settled", ok)
    /\ log' = IF ok THEN Append(log, LogEntry("log", "Wrote", e.path, "runCli", 0))
              ELSE ErrorWriting(log, e.path)
    /\ counters' = CountFault(counters, fault)
    /\ fault # "none" => WriteFileSucceeds(fsOps, dest, "none")
WriteFileSettles016 ==
    /\ pc = "await"
    /\ \E k \in 1..Len(writePromises), fault \in {"none", "writeFile"} :
         /\ writePromises[k].at = "writeFile" /\ FaultAllowed(fault)
         /\ WriteFileSettlesFor(k, filesToWrite[writePromises[k].entry],
                                Dest016(filesToWrite[writePromises[k].entry].path),
                                WriteFileSucceeds(fsOps,
                                    Dest016(filesToWrite[writePromises[k].entry].path), fault),
                                fault)
    /\ UNCHANGED <<fnVars, lastIndex, pc, input, remaining, tokens, idx, filesToWrite, exitCode,
                   oracle>>

\* part_016:142-153: Promise.all resolves, the results are counted and the
\* process exits
Summary016(written, errors) ==
    /\ counters' = [counters EXCEPT !.written = written, !.errors = errors]
    /\ exitCode' = SummaryExitCode(errors)
    /\ pc' = "exited"
PromiseAllResolves016 ==
    /\ pc = "await" /\ AllSettled(writePromises)
    /\ Summary016(CountResults(writePromises, TRUE),
                  counters.errors + CountResults(writePromises, FALSE))
    /\ UNCHANGED <<fnVars, lastIndex, input, remaining, tokens, idx, filesToWrite, log, fsOps,
                   writePromises, oracle>>

MaxFiles == 2
\* the entries of the maps: a file, a file in a directory, a file named as
\* that directory, a path above the working directory, an absolute path
WriterKeys ==
    { <<"a",".","t","s">>, <<"d","/","e",".","t","s">>, <<"d">>,
      <<".",".","/","e",".","t","s">>, <<"/","a">> }
WriterEntry(key) == [path |-> key, content |-> <<"x">>, format |-> TagBlock]
WriterMaps ==
    { m \in SeqsUpTo({WriterEntry(key) : key \in WriterKeys}, MaxFiles) :
        \A i, j \in 1..Len(m) : i # j => m[i].path # m[j].path }

InitWriters ==
    /\ fn = "runCli" /\ arg \in {RevSequentialWriter, RevParallelWriter} /\ ret = Pending
    /\ filesToWrite \in WriterMaps
    \* the map is not empty where the loop of part_016 starts (part_016:97-100)
    /\ arg = RevParallelWriter => filesToWrite # << >>
    /\ pc = (IF arg = RevSequentialWriter THEN "write" ELSE "launch")
    /\ input = << >> /\ remaining = << >> /\ tokens = << >> /\ idx = 0 /\ log = << >>
    /\ IdleCli /\ IdleOracle /\ IdleRegex

NextWriters ==
    \/ ExitNoFiles
    \/ WriteFileEntry
    \/ ExitSummary
    \/ SkipUnsafe016
    \/ StartWrite016
    \/ AwaitAll016
    \/ MkdirSettles016
    \/ WriteFileSettles016
    \/ PromiseAllResolves016

SpecWriters == InitWriters /\ [][NextWriters]_vars

---------------------------------------------------------------------------
(* Properties of the extraction passes and of the writer of runCli.        *)

ExplicitFormats == {CommentBlock, TagBlock}
StoreMsgs == {"Found", "Overwriting"}
AfterLex == pc \in {"markdown", "write", "exited"}

\* the tokens the markdown pass has gone through
Processed == 1..(idx - 1)
\* the console records of the markdown pass about token i
LogAt(i) == {k \in 1..Len(log) : log[k].token = i}

\* the heuristics resolve the block to a path an explicit block has set
ClaimsExplicitAt(files, r) ==
    /\ r.path # Null
    /\ MapHas(files, NormalizePath(r.path))
    /\ MapGet(files, NormalizePath(r.path)).format \in ExplicitFormats
ClaimsExplicit(i) == ClaimsExplicitAt(filesToWrite, ResolvePath(tokens, i))

\* C1: during the markdown pass an entry that an explicit block has produced
\* keeps its place, content and format; a fenced block that the heuristics
\* resolve to the path of such an entry leaves the map as it is and is logged
\* as skipped.
C1_ExplicitKept ==
    [][pc = "markdown" =>
        /\ \A k \in 1..Len(filesToWrite) :
              filesToWrite[k].format \in ExplicitFormats =>
                 Len(filesToWrite') >= k /\ filesToWrite'[k] = filesToWrite[k]
        /\ (idx <= Len(tokens) /\ tokens[idx].type = "code" /\ ClaimsExplicit(idx)) =>
              /\ filesToWrite' = filesToWrite
              /\ Len(log') = Len(log) + 1
              /\ log'[Len(log')].msg = "Skipping" /\ log'[Len(log')].token = idx]_vars

\* C1 witness: the run has ended, a fenced block was skipped for a path whose
\* entry comes from an explicit block.
C1_SkippedForExplicit ==
    /\ pc = "exited"
    /\ \E k \in 1..Len(log) :
          /\ log[k].msg = "Skipping" /\ log[k].token > 0
          /\ MapHas(filesToWrite, log[k].path)
          /\ MapGet(filesToWrite, log[k].path).format \in ExplicitFormats

\* what the output-map invariant asks of a key
SafeKey(p) ==
    /\ p # << >>
    /\ ~StartsWith(p, <<"/">>)
    /\ ~HasDrivePrefix(p)
    /\ ~HasTraversalSegment(p)
    /\ ~HasUrlScheme(p)

\* C2: after the three passes every key of the map is non-empty, relative,
\* free of '..' segments and not a URL, whichever source produced it.
C2_KeysValidated ==
    pc \in {"write", "exited"} => \A k \in 1..Len(filesToWrite) : SafeKey(filesToWrite[k].path)

\* the block at i follows a paragraph that is nothing but a valid path and
\* opens with a block comment that holds a valid '* <path>' line
AfterPathParagraph(i, j) ==
    /\ tokens[i].type = "code"
    /\ j > 0 /\ tokens[j].type = "paragraph"
    /\ isValidPathCandidate(tokens[j].text)
    /\ extractPathFromHeaderCommentBlock(tokens[i].text) # Null
\* the console says that block i went to path p by strategy by
ResolvedBy(i, by, p) ==
    /\ LogAt(i) # {}
    /\ \A k \in LogAt(i) : log[k].by = by /\ log[k].path = p
ParagraphWins(i, j) == ResolvedBy(i, "Preceding Token", NormalizePath(tokens[j].text))

\* C4 (as stated): a fenced block that follows a paragraph consisting solely of
\* a valid path and that opens with a header comment naming a valid path
\* resolves to the path of the paragraph.
C4_ParagraphBeatsHeader ==
    AfterLex => \A i \in Processed :
        AfterPathParagraph(i, PrecedingTokenIndex(tokens, i)) =>
            ParagraphWins(i, PrecedingTokenIndex(tokens, i))

\* the paragraph at j is a path the Standalone Path pattern accepts: segments
\* joined by '/', the last one ending in a dot-extension
HasDotExtension(j) == j > 0 /\ StandalonePathCapture(Trim(tokens[j].text)) # Null

\* C4 (amended): when the path in the paragraph ends in a dot-extension, the
\* block resolves to the path of the paragraph and never to the path of its
\* header comment.
C4_ExtensionParagraphBeatsHeader ==
    AfterLex => \A i \in Processed :
        (/\ AfterPathParagraph(i, PrecedingTokenIndex(tokens, i))
         /\ HasDotExtension(PrecedingTokenIndex(tokens, i))) =>
            ParagraphWins(i, PrecedingTokenIndex(tokens, i))

\* C4 witness: such a block has been processed and went to the paragraph's path.
C4_BothSourcesSeen ==
    /\ pc = "exited"
    /\ \E i \in Processed :
          /\ AfterPathParagraph(i, PrecedingTokenIndex(tokens, i))
          /\ HasDotExtension(PrecedingTokenIndex(tokens, i))
          /\ ParagraphWins(i, PrecedingTokenIndex(tokens, i))
          /\ MapHas(filesToWrite, NormalizePath(tokens[PrecedingTokenIndex(tokens, i)].text))

\* the console record of the block that stored the entry for path p last
StoresOf(p) ==
    {k \in 1..Len(log) : log[k].token > 0 /\ log[k].msg \in StoreMsgs /\ log[k].path = p}
LastStore(p) == log[Max(StoresOf(p))]

\* stored is cleaned without its first line and the line break that ends it
IsWithoutFirstLine(stored, cleaned, firstLine) ==
    \/ cleaned = firstLine /\ stored = << >>
    \/ cleaned = firstLine \o <<"\n">> \o stored
    \/ cleaned = firstLine \o <<"\r", "\n">> \o stored

StoredAsClaimed(e, rec, codeContent) ==
    IF rec.by = "First Line Comment"
    THEN IsWithoutFirstLine(e.content, CleanCodeContent(codeContent),
                            SplitLines(codeContent)[1])
    ELSE e.content = CleanCodeContent(codeContent)

\* C5: the content stored for a fenced block is its trimmed code text, less
\* the first line and its line break exactly when the path came from the
\* first-line comment; for every other strategy the first line is kept.
C5_FirstLineStripped ==
    AfterLex => \A k \in 1..Len(filesToWrite) :
        filesToWrite[k].format = MarkdownBlock =>
            /\ StoresOf(filesToWrite[k].path) # {}
            /\ StoredAsClaimed(filesToWrite[k], LastStore(filesToWrite[k].path),
                               tokens[LastStore(filesToWrite[k].path).token].text)

\* C5 witness: the map holds an entry stored by the first-line-comment strategy
\* whose code had further lines.
C5_StrippedEntry ==
    /\ pc = "exited"
    /\ \E k \in 1..Len(filesToWrite) :
          /\ filesToWrite[k].format = MarkdownBlock
          /\ LastStore(filesToWrite[k].path).by = "First Line Comment"
          /\ filesToWrite[k].content # << >>

\* no strategy yields a valid path for the block at i
Unresolved(i) == tokens[i].type = "code" /\ ResolvePath(tokens, i).path = Null
OnlyWarnings(i) ==
    \A k \in LogAt(i) : log[k].level = "warn" /\ log[k].msg = "could not determine file path"
PassWentOn == (pc \in {"write", "exited"} /\ tokens # << >>) => idx = Len(tokens) + 1

C9_CallsInsideCwd ==
    \A k \in 1..Len(fsOps) : InsideCwd(fsOps[k].target)

\* the input shows a block marker: a code fence, START OF or <file
HasMarkers(in) ==
    \E k \in 1..Len(in) : in[k].kind \in {"comment", "tag"} \/ in[k].type = "code"
SuccessfulWrites == {k \in 1..Len(fsOps) : fsOps[k].call = "writeFile" /\ fsOps[k].ok}
AllWritten == Cardinality(SuccessfulWrites) = Len(filesToWrite)

\* C10 (as stated): the exit code is not zero when no block was resolved
\* although the input shows a block marker.
C10_MarkersExitNonZero ==
    (pc = "exited" /\ filesToWrite = << >> /\ HasMarkers(input)) => exitCode # 0

\* C10 (amended): the process exits with 0 exactly when the input is not blank
\* and every entry of the map was written, an empty map included, whatever
\* markers the input shows; it exits with 1 when the input is blank or when an
\* entry was rejected or failed to be written.
C10_ExitCodes ==
    IF pc = "exited"
    THEN exitCode = IF ~IsBlankInput(input) /\ AllWritten THEN 0 ELSE 1
    ELSE exitCode = -1

\* C10 witness: the process has exited with 0 on an empty map although the
\* input shows markers.
C10_EmptyWithMarkers ==
    /\ pc = "exited" /\ exitCode = 0
    /\ filesToWrite = << >> /\ HasMarkers(input)

---------------------------------------------------------------------------
(* The LLM-driven revisions of the parser: extractAllCodeBlocks with       *)
(* determineFilePath of src/unnamed/part_010 and                           *)
(* extractMarkdownBlocksWithParser with determineFilePath of               *)
(* src/unnamed/part_011.  The variable oracle holds the run: the fenced    *)
(* blocks of the input, the loop position, the requests in flight, the map *)
(* and the console.  A request and its response are separate steps, so     *)
(* that a response may take any time to arrive.                            *)

MaxBlocks == 2

Rev010 == "part_010"
Rev011 == "part_011"

NoPath == <<"N","O","_","P","A","T","H">>
Fence == <<Tick, Tick, Tick>>

\* content.replace(/^```[^\n]*\n?/, '') (part_010:93)
StripOpeningFence(content) ==
    LET nl == {k \in 4..Len(content) : content[k] = "\n"}
    IN  IF ~StartsWith(content, Fence) THEN content
        ELSE IF nl = {} THEN << >> ELSE From(content, Min(nl) + 1)

\* content.replace(/\n?```$/, '') (part_010:94)
StripClosingFence(content) ==
    LET cut == Len(content) - 3
    IN  IF ~EndsWith(content, Fence) THEN content
        ELSE IF cut >= 1 /\ content[cut] = "\n" THEN SubSeq(content, 1, cut - 1)
        ELSE SubSeq(content, 1, cut)

\* part_010:97-103
IsUnsafeResponse(content) ==
    \/ StartsWith(content, <<"/">>)
    \/ StartsWith(content, <<"C", ":">>)
    \/ StartsWith(content, <<"h","t","t","p",":">>)
    \/ StartsWith(content, <<"h","t","t","p","s",":">>)
    \/ Includes(content, <<".", ".">>)

Returned(p) == [threw |-> FALSE, path |-> p]
Thrown == [threw |-> TRUE, path |-> << >>]

\* part_010:92-113, on the response text with its fences stripped and trimmed
CheckedPath(content) ==
    IF IsUnsafeResponse(content) THEN Returned(NoPath)
    ELSE Returned(BackslashToSlash(content))

\* part_010:83-95, on the trimmed response text
Unfenced(content) ==
    IF content = << >> THEN Returned(NoPath)
    ELSE CheckedPath(Trim(StripClosingFence(StripOpeningFence(content))))

\* part_011:83-86
TrimmedOrThrow(content) ==
    IF content = << >> THEN Thrown ELSE Returned(Trim(content))

\* determineFilePath once the request has ended with resp: the API call
\* rejected (kind "error") or answered with a message text (kind "content")
determineFilePath(rev, resp) ==
    IF rev = Rev010
    THEN IF resp.kind = "error" THEN Returned(NoPath)       \* part_010:114-119
         ELSE Unfenced(Trim(resp.text))
    ELSE IF resp.kind = "error" THEN Thrown                 \* part_011:57, no catch
         ELSE TrimmedOrThrow(resp.text)

OracleLog(msg, block, path) == [msg |-> msg, block |-> block, path |-> path]

\* the loop goes on with the next token
NextToken(o) == [o EXCEPT !.pc = "loop", !.k = @ + 1]

\* a loop that stops at the first failure and rejects
AfterLlmError_Rethrow(o, c) ==
    [o EXCEPT !.pc = "rejected",
              !.log = Append(@, OracleLog("LLM error", c, << >>))]

\* part_010:163-168 and part_011:122-126: the catch around the await
AfterLlmError(o, c) ==
    NextToken([o EXCEPT !.log = Append(@, OracleLog("LLM error", c, << >>))])

\* part_010:170-175 and part_011:129-133
AfterNoPath(o, c) ==
    NextToken([o EXCEPT !.log = Append(@, OracleLog("NO_PATH", c, << >>))])

\* does this revision warn before it replaces an entry?  (part_010:179-183)
WarnsOverwrite(o, filePath) == o.rev = Rev010 /\ MapHas(o.files, filePath)

OracleFormat(rev) ==
    IF rev = Rev010 THEN "markdown code block" ELSE "Markdown Block (via LLM)"

\* part_010:177-188 and part_011:135-141: filesToWrite.set
StoreOracleBlock(o, c, filePath) ==
    NextToken([o EXCEPT
        !.files = MapSet(@, filePath, o.tokens[c].text, OracleFormat(o.rev)),
        !.log = Append(IF WarnsOverwrite(o, filePath)
                       THEN Append(@, OracleLog("Overwriting", c, filePath)) ELSE @,
                       OracleLog("mapped", c, filePath))])

\* what the loop does with the outcome of determineFilePath for block c
MergeResult(o, c, res) ==
    IF res.threw THEN AfterLlmError(o, c)
    ELSE IF res.path = NoPath THEN AfterNoPath(o, c)
    ELSE StoreOracleBlock(o, c, res.path)

\* a loop that does not wait for the response before it goes on
IssueCall_NoAwait(o, c) ==
    [o EXCEPT !.pc = "loop", !.k = @ + 1,
              !.inflight = @ \cup {c}, !.issued = Append(@, c)]

\* client.chat.completions.create is called and awaited
\* (part_010:61 and 162, part_011:57 and 121)
IssueCall(o, c) ==
    [o EXCEPT !.pc = "awaiting", !.inflight = @ \cup {c}, !.issued = Append(@, c)]

\* the response of block c has arrived and the awaiting loop resumes
CompleteCall(o, c, resp) ==
    MergeResult([o EXCEPT !.inflight = @ \ {c},
                          !.completed = Append(@, [block |-> c, resp |-> resp])],
                c, determineFilePath(o.rev, resp))

\* the module is loaded with or without LLM_API_KEY and LLM_API_BASE_URL:
\* part_011:43-44 throws at load without them and nothing runs; part_010:38-46
\* leaves client null, warns once and goes on
LoadModule(rev, client) == IF rev = Rev011 /\ ~client THEN "aborted" ELSE "loop"
LoadLog(rev, client) ==
    IF rev = Rev010 /\ ~client
    THEN <<OracleLog("credentials not found", 0, << >>)>> ELSE << >>

\* part_010:53-56: determineFilePath without a client logs an error and throws
ClientMissing(o, c) ==
    [o EXCEPT !.log = Append(@, OracleLog("client not initialized", c, << >>))]

\* the tokens of the inputs
OracleTokens ==
    { [type |-> "code", text |-> <<"x", "\n">>],
      [type |-> "code", text |-> <<"y">>],
      [type |-> "code", text |-> <<" ">>],
      [type |-> "paragraph", text |-> <<"p">>] }

\* what a request can end with
OracleResponses ==
    { [kind |-> "error", text |-> << >>],
      [kind |-> "content", text |-> << >>],
      [kind |-> "content", text |-> NoPath],
      [kind |-> "content", text |-> <<" ", "a", ".", "t", "s", "\n">>],
      [kind |-> "content", text |-> Fence \o <<"\n", "b", "\\", "c", "\n">> \o Fence],
      [kind |-> "content", text |-> <<".", ".", "/", "x">>],
      [kind |-> "content", text |-> <<"q">>] }

InitOracle ==
    /\ fn = "none" /\ arg = << >> /\ ret = Pending
    /\ IdleParser /\ IdleCli /\ IdleRegex
    /\ \E rev \in {Rev010, Rev011}, client \in BOOLEAN, toks \in SeqsUpTo(OracleTokens, MaxBlocks) :
          oracle = [pc |-> LoadModule(rev, client), rev |-> rev, client |-> client,
                    tokens |-> toks, k |-> 1, inflight |-> {}, issued |-> << >>,
                    completed |-> << >>, files |-> << >>, log |-> LoadLog(rev, client)]

AtCodeToken ==
    /\ oracle.pc = "loop" /\ oracle.k <= Len(oracle.tokens)
    /\ oracle.tokens[oracle.k].type = "code"

\* part_010:150-153
SkipsEmptySnippet == oracle.rev = Rev010 /\ Trim(oracle.tokens[oracle.k].text) = << >>

\* part_010:141 and part_011:103,142-144: not a fenced block
OracleOtherToken ==
    /\ oracle.pc = "loop" /\ oracle.k <= Len(oracle.tokens)
    /\ oracle.tokens[oracle.k].type # "code"
    /\ oracle' = NextToken(oracle)
    /\ UNCHANGED <<fnVars, lastIndex, parserVars, cliVars>>

\* part_010:150-153
OracleEmptySnippet ==
    /\ AtCodeToken /\ SkipsEmptySnippet
    /\ oracle' = NextToken([oracle EXCEPT
                     !.log = Append(@, OracleLog("Skipping empty", oracle.k, << >>))])
    /\ UNCHANGED <<fnVars, lastIndex, parserVars, cliVars>>

\* part_010:53-56: without a client determineFilePath throws before any request
OracleNoClient ==
    /\ AtCodeToken /\ ~SkipsEmptySnippet /\ ~oracle.client
    /\ oracle' = AfterLlmError(ClientMissing(oracle, oracle.k), oracle.k)
    /\ UNCHANGED <<fnVars, lastIndex, parserVars, cliVars>>

\* part_010:162 and part_011:121: the request goes out
OracleRequest ==
    /\ AtCodeToken /\ ~SkipsEmptySnippet /\ oracle.client
    /\ oracle' = IssueCall(oracle, oracle.k)
    /\ UNCHANGED <<fnVars, lastIndex, parserVars, cliVars>>

\* a request in flight ends and the code after the await runs
OracleResponse ==
    /\ \E c \in oracle.inflight, resp \in OracleResponses :
          oracle' = CompleteCall(oracle, c, resp)
    /\ UNCHANGED <<fnVars, lastIndex, parserVars, cliVars>>

\* part_010:192-195 and part_011:145-146: the loop is over, the map is returned
OracleReturn ==
    /\ oracle.pc = "loop" /\ oracle.k > Len(oracle.tokens)
    /\ oracle' = [oracle EXCEPT !.pc = "done"]
    /\ UNCHANGED <<fnVars, lastIndex, parserVars, cliVars>>

NextOracle ==
    \/ OracleOtherToken
    \/ OracleEmptySnippet
    \/ OracleNoClient
    \/ OracleRequest
    \/ OracleResponse
    \/ OracleReturn

SpecOracle == InitOracle /\ [][NextOracle]_vars

---------------------------------------------------------------------------
(* Properties of the LLM-driven revisions.                                 *)

\* the request ended without a usable answer: the API call failed, or the
\* message was empty
FailedResponse(resp) == resp.kind = "error" \/ resp.text = << >>

\* the step in which the response of a failed request is handled
HandlesFailure ==
    /\ oracle.pc = "awaiting"
    /\ Len(oracle'.completed) = Len(oracle.completed) + 1
    /\ FailedResponse(oracle'.completed[Len(oracle'.completed)].resp)

\* C7: when the request of one block fails, the map stays as it is, the loop
\* goes on with the next token and the run never ends rejected.
C7_FailureIsolated ==
    [][/\ HandlesFailure =>
            /\ oracle'.files = oracle.files
            /\ oracle'.pc = "loop" /\ oracle'.k = oracle.k + 1
       /\ oracle'.pc # "rejected"]_vars

\* C7 witness: the run has returned, a request had failed and a later block
\* was stored.
C7_StoredAfterFailure ==
    /\ oracle.pc = "done"
    /\ \E a \in 1..Len(oracle.completed), b \in 1..Len(oracle.log) :
          /\ FailedResponse(oracle.completed[a].resp)
          /\ oracle.log[b].msg = "mapped"
          /\ oracle.log[b].block > oracle.completed[a].block

IsIncreasing(q) == \A a, b \in 1..Len(q) : a < b => q[a] < q[b]
IsNonDecreasing(q) == \A a, b \in 1..Len(q) : a < b => q[a] <= q[b]
CompletedBlocks == [a \in 1..Len(oracle.completed) |-> oracle.completed[a].block]
LoggedBlocks == [a \in 1..Len(oracle.log) |-> oracle.log[a].block]

\* C8: at most one request is in flight; requests go out and are merged in
\* document order; while a request is in flight every earlier request has
\* been merged and the loop stands at its block; the console follows the
\* order of the document.
C8_OneAtATime ==
    oracle.pc # "idle" =>
        /\ Cardinality(oracle.inflight) <= 1
        /\ IsIncreasing(oracle.issued)
        /\ IsIncreasing(CompletedBlocks)
        /\ IsNonDecreasing(LoggedBlocks)
        /\ \A c \in oracle.inflight :
              /\ oracle.pc = "awaiting" /\ oracle.k = c
              /\ Len(oracle.completed) = Len(oracle.issued) - 1

\* C8 witness: two requests have been made and merged, the second replaced the
\* entry of the first.
C8_TwoCallsMerged ==
    /\ oracle.pc = "done"
    /\ Len(oracle.completed) = 2
    /\ \E b \in 1..Len(oracle.log) : oracle.log[b].msg = "Overwriting"

\* the console records that say that the credentials are missing
CredentialRecords ==
    {b \in 1..Len(oracle.log) :
        oracle.log[b].msg \in {"credentials not found", "client not initialized"}}

\* C16: without the API key or the base URL the run is not aborted, no request
\* goes out, no block gets a path, and the console reports the missing
\* credentials once, however many blocks there are.
C16_NoCredentialsDegrade ==
    (oracle.pc # "idle" /\ ~oracle.client) =>
        /\ oracle.pc \notin {"aborted", "rejected"}
        /\ oracle.issued = << >> /\ oracle.inflight = {}
        /\ oracle.files = << >>
        /\ Cardinality(CredentialRecords) = 1

\* what determineFilePath gives back for an answer: NO_PATH, or a path that
\* isValidPathCandidate accepts
ValidatedResult(r) ==
    /\ ~r.threw
    /\ r.path = NoPath \/ isValidPathCandidate(r.path)

\* C17: for every answer of the model determineFilePath returns NO_PATH or a
\* path that passes the validation of the other sources; an empty, unsafe or
\* invalid answer becomes NO_PATH.
C17_ResponseValidated ==
    oracle.pc # "idle" =>
        \A a \in 1..Len(oracle.completed) :
            oracle.completed[a].resp.kind = "content" =>
                ValidatedResult(determineFilePath(oracle.rev, oracle.completed[a].resp))

---------------------------------------------------------------------------
(* Properties of conflicts between blocks and of the explicit passes.      *)

\* the console records of the markdown pass are in the order of the blocks
StoreRecordsAsClaimed(s) ==
    \A m \in s :
        IF m = Min(s)
        THEN log[m].msg = "Found" /\ log[m].level = "log"
        ELSE log[m].msg = "Overwriting" /\ log[m].level = "warn"

LaterBlockWins(e, s) ==
    /\ s # {}
    /\ e.content = CleanedContent(tokens[log[Max(s)].token].text, log[Max(s)].by)
    /\ StoreRecordsAsClaimed(s)

StoredFrom(i) == \E k \in LogAt(i) : log[k].msg \in StoreMsgs
\* ... and has found its path in the token before the block
PathFromPreceding(i) == \E k \in LogAt(i) : log[k].by = "Preceding Token"

\* C12: text inside a span that an explicit block has matched takes no part in
\* the later stages: the second explicit pass meets no <file> element of such
\* a span, and the markdown pass stores no entry for a fenced block of such a
\* span nor for a block whose path it has read in such a span.
C12_ConsumedSpansInert ==
    /\ pc = "tags" =>
          \A k \in 1..Len(remaining) :
              (remaining[k].kind = "tag" /\ Trim(remaining[k].path) # Null)
                  => ~IsConsumed(remaining[k])
    /\ AfterLex =>
          \A i \in Processed :
              StoredFrom(i) =>
                 /\ ~tokens[i].consumed
                 /\ PathFromPreceding(i) => ~tokens[PrecedingTokenIndex(tokens, i)].consumed

\* the console says that the lexer has thrown
LexerFailed(console) ==
    console # << >> /\ console[Len(console)].msg = "Error parsing Markdown"

\* C13: when the tokenizer throws, extractMarkdownBlocksWithParser returns to
\* its caller, which goes on to the writer, and the map is what it was on
\* entry.
C13_LexFailureKeepsMap ==
    [][(pc = "lex" /\ Len(log') = Len(log) + 1 /\ LexerFailed(log')) =>
          /\ filesToWrite' = filesToWrite
          /\ pc' = "write" /\ exitCode' = exitCode]_vars

\* C13 witness: the run has ended after the lexer has thrown, and the entries
\* of the explicit passes are in the map.
C13_ExplicitEntriesSurvive ==
    /\ pc = "exited"
    /\ \E k \in 1..Len(log) : log[k].msg = "Error parsing Markdown"
    /\ filesToWrite # << >>
    /\ \A k \in 1..Len(filesToWrite) : filesToWrite[k].format \in ExplicitFormats

\* the text holds nothing but explicit blocks with a path, each closed by the
\* marker of its own path
OnlyExplicitBlocks(in) ==
    /\ in # << >>
    /\ \A k \in 1..Len(in) :
          /\ in[k].kind \in {"comment", "tag"}
          /\ Trim(in[k].path) # Null
          /\ in[k].kind = "comment" => in[k].endPath = in[k].path

\* C14: calls of parseInput on one text that holds only explicit blocks give
\* the same map and the same remaining text, each on a fresh map, and the
\* lastIndex of the shared regular expressions stays where it was.
C14_RerunsAgree ==
    (fn = "parseInput" /\ OnlyExplicitBlocks(arg)) =>
        /\ \A a, b \in 1..Len(ret) :
              ret[a].files = ret[b].files /\ ret[a].remaining = ret[b].remaining
        /\ lastIndex = RegexInitial

\* C14 witness: two calls on a text of two explicit blocks, with entries.
C14_TwoRunsSeen ==
    /\ fn = "parseInput" /\ OnlyExplicitBlocks(arg) /\ Len(arg) >= 2
    /\ Len(ret) >= 2
    /\ Len(ret[1].files) >= 2 /\ ret[2].files = ret[1].files

\* the call of extractExplicitBlocks has returned
ExplicitReturned == fn = "extractExplicitBlocks" /\ ret # Pending
ArgMatches == MatchAll(arg.input, 1, arg.formatName)
\* the matches whose path is empty once trimmed
Malformed == {n \in 1..Len(ArgMatches) : Trim(arg.input[ArgMatches[n].from].path) = Null}
FailureWarnings(console) ==
    {k \in 1..Len(console) :
        console[k].msg = "Failed to parse explicit block" /\ console[k].level = "warn"}
StaysInText(span, text) == \E j \in 1..Len(text) : Unmarked(text[j]) = Unmarked(span)

\* what both revisions do with a match that has no path: no entry, the text
\* stays, and the matches after it are stored
MalformedPassedOver(r) ==
    /\ \A k \in 1..Len(r.files) : r.files[k].path # Null
    /\ \A n \in 1..Len(ArgMatches) :
          IF n \in Malformed
          THEN StaysInText(arg.input[ArgMatches[n].from], r.remaining)
          ELSE MapHas(r.files, BackslashToSlash(Trim(arg.input[ArgMatches[n].from].path)))

\* C15: a match of an explicit pass whose path is empty adds no
\* entry, stays in the text and is reported by a warning; the call returns
\* and the matches after it are stored.
C15_MalformedWarned ==
    ExplicitReturned =>
        /\ MalformedPassedOver(ret[1])
        /\ Cardinality(FailureWarnings(ret[1].log)) = Cardinality(Malformed)

\* the case of C15 in src/src/parser.ts: a <file> element without a path, then
\* one with a path; one warning, and the second is stored
SkippedThenStored ==
    /\ ExplicitReturned /\ arg.rev = RevParser /\ arg.formatName = TagBlock
    /\ Len(arg.input) >= 2 /\ Malformed = {1} /\ Len(ArgMatches) >= 2
    /\ Cardinality(FailureWarnings(ret[1].log)) = 1
    /\ Len(ret[1].files) = 1
    /\ StaysInText(arg.input[1], ret[1].remaining)

LineBreaks == { <<"\n">>, <<"\r", "\n">> }
Cleaned == fn = "CleanExplicitContent" /\ ret # Pending
StartsWithBreak(s) == \E b \in LineBreaks : StartsWith(s, b)
\* s is nothing but white space
IsBlank(s) == \A k \in 1..Len(s) : IsWs(s[k])
\* s ends with a line break that only white space follows
HasBlankTail(s) ==
    \E k \in 1..Len(s) : s[k] = "\n" /\ IsBlank(SubSeq(s, k, Len(s)))

NormalizedKey(p) ==
    /\ ~Includes(p, <<"\\">>)
    /\ ~Includes(p, <<"/", "/">>)
    /\ Trim(p) = p

\* C20: every key of the final map is normalized, whichever pass has made it:
\* no backslash, no repeated slash, no white space at either end.
C20_KeysNormalized ==
    pc \in {"write", "exited"} =>
        \A k \in 1..Len(filesToWrite) : NormalizedKey(filesToWrite[k].path)

\* the comment pass of src/src/parser.ts has returned
CommentPassReturned == ExplicitReturned /\ arg.formatName = CommentBlock
IsComment(in, k) == in[k].kind = "comment"
\* the span at k closes with the marker of another path
Mismatched(in, k) == IsComment(in, k) /\ in[k].endPath # in[k].path
\* an END OF marker at or after span k names the path of the START OF of span i
ClosedAtOrAfter(in, i, k) ==
    \E j \in k..Len(in) : IsComment(in, j) /\ in[j].endPath = in[i].path
\* every key comes from a START OF marker that an END OF marker of the same
\* path follows
KeysFromClosedMarkers(in, files) ==
    \A e \in 1..Len(files) :
        \E i \in 1..Len(in) :
            /\ IsComment(in, i) /\ ClosedAtOrAfter(in, i, i)
            /\ files[e].path = BackslashToSlash(Trim(in[i].path))
NeverOverlap(matches) ==
    \A n, m \in 1..Len(matches) :
        /\ matches[n].from <= matches[n].to
        /\ n < m => matches[n].to < matches[m].from

\* C18 (as stated): a comment span is matched only when END OF names the path
\* of START OF; a span whose markers name different paths stays in the text
\* as it is; the matches of a scan do not overlap.
C18_MismatchUntouched ==
    CommentPassReturned =>
        /\ KeysFromClosedMarkers(arg.input, ret[1].files)
        /\ \A k \in 1..Len(arg.input) :
              Mismatched(arg.input, k) => StaysInText(arg.input[k], ret[1].remaining)
        /\ NeverOverlap(ArgMatches)

\* C18 (amended): every key comes from a START OF marker that an END OF marker
\* of the same path follows, and the matches of a scan do not overlap; a span
\* whose markers name different paths stays in the text as it is when no END
\* OF marker at or after it names the path of its START OF or of a START OF
\* before it.  When a later END OF marker does name the path, the text from
\* the START OF marker up to it is one block.
C18_MismatchUntouchedUnlessClosedLater ==
    CommentPassReturned =>
        /\ KeysFromClosedMarkers(arg.input, ret[1].files)
        /\ \A k \in 1..Len(arg.input) :
              (/\ Mismatched(arg.input, k)
               /\ \A i \in 1..k : IsComment(arg.input, i) => ~ClosedAtOrAfter(arg.input, i, k))
                  => StaysInText(arg.input[k], ret[1].remaining)
        /\ NeverOverlap(ArgMatches)

\* C18 witness: a span that opens with START OF a.ts and closes with END OF
\* b.ts stays in the text and gives no entry, the block after it is stored.
C18_MismatchLeftBlockStored ==
    /\ CommentPassReturned /\ Len(arg.input) = 2
    /\ Mismatched(arg.input, 1) /\ IsComment(arg.input, 2)
    /\ StaysInText(arg.input[1], ret[1].remaining)
    /\ Len(ret[1].files) = 1
    /\ ret[1].files[1].path # BackslashToSlash(Trim(arg.input[1].path))

---------------------------------------------------------------------------
(* Properties of the path cascade.                                         *)

LocateReturned == fn = "locate" /\ ret # Pending

\* the first-line strategy of a revision
FirstLineCommentPathOf(rev, codeContent) ==
    IF rev = RevParser THEN extractPathFromFirstLineComment(codeContent)
    ELSE extractPathFromFirstLineComment012(codeContent)

\* what the five strategies find for the code token i, in the order front
\* matter, nearest preceding node, header comment, list item, first line
FiveStrategies(rev, toks, i) ==
    << FrontMatterPathAt(toks, PrecedingTokenIndex(toks, i)),
       PrecedingTokenPath(toks, i),
       extractPathFromHeaderCommentBlock(toks[i].text),
       ListItemPath(toks, i, i - 1),
       FirstLineCommentPathOf(rev, toks[i].text) >>

\* C21: a fenced block resolves to the candidate of the first of the five
\* strategies (front matter, nearest preceding node, header comment, list
\* item, first-line comment) that succeeds, and to nothing if none succeeds.
C21_CascadeOrder ==
    LocateReturned =>
        ret[1].path = FirstNonNull(FiveStrategies(arg.rev, arg.tokens, Len(arg.tokens)))

\* the same statement for the revision that has the front-matter strategy
CascadeOrderWithFrontMatter ==
    (LocateReturned /\ arg.rev = RevFrontMatter) =>
        ret[1].path = FirstNonNull(FiveStrategies(arg.rev, arg.tokens, Len(arg.tokens)))

\* the strategies ranked above the list item found nothing for the block
ListItemConsulted ==
    LET i == Len(arg.tokens)
    IN  /\ PrecedingTokenPath(arg.tokens, i) = Null
        /\ extractPathFromHeaderCommentBlock(arg.tokens[i].text) = Null
        /\ arg.rev = RevFrontMatter =>
             FrontMatterPathAt(arg.tokens, PrecedingTokenIndex(arg.tokens, i)) = Null

\* the list items among the ListLookback nodes before the block
ListItemsInReach(toks) ==
    {j \in 1..(Len(toks) - 1) : j >= Len(toks) - ListLookback /\ toks[j].type = "list_item"}

\* the list items the walk can get to: only blank and list-boundary nodes
\* lie between them and the block
ListItemsWalkedTo(toks) ==
    {j \in ListItemsInReach(toks) :
        \A k \in (j + 1)..(Len(toks) - 1) : toks[k].type \in {"space", "list_start", "list_end"}}

\* the path of the list item nearest to the block among a set of them
NearestListItemPath(toks, items) ==
    IF items = {} THEN Null ELSE ValidCapture(ListItemPathCapture(toks[Max(items)].text))

ResolvedByListItem(p) ==
    IF p # Null THEN ret[1] = [path |-> p, foundBy |-> "List Item"]
    ELSE ret[1].foundBy # "List Item"

NearestNonBlank(toks) ==
    LET nodes == {j \in 1..(Len(toks) - 1) : toks[j].type # "space"}
    IN  IF nodes = {} THEN 0 ELSE Max(nodes)

\* the headings and paragraphs that another non-blank node separates from
\* the block
EarlierTextNodes(toks) ==
    {j \in 1..(NearestNonBlank(toks) - 1) : toks[j].type \in {"heading", "paragraph"}}
EarlierPathMentions(toks) ==
    {j \in EarlierTextNodes(toks) : extractPathFromPrecedingText(toks[j].text) # Null}

Prose == <<"S","e","e"," ","b","e","l","o","w",":">>

\* the nearest node itself names no path for the block
NearestNodeSilent ==
    LET i == Len(arg.tokens)
    IN  /\ PrecedingPathAt(arg.tokens, NearestNonBlank(arg.tokens)) = Null
        /\ FrontMatterPathAt(arg.tokens, NearestNonBlank(arg.tokens)) = Null

---------------------------------------------------------------------------
(* Properties of stripOuterMarkdownFences.                                 *)

StripReturned == fn = "stripOuterMarkdownFences" /\ ret # Pending
ArgLines == SplitAtNewline(arg)
IsBlankLine(line) == \A k \in 1..Len(line) : IsWs(line[k])

\* the first line is three backticks, an optional tag of word characters,
\* dots or hyphens, and optional trailing white space
OpensFence(line) ==
    \E n \in 3..Len(line) :
        /\ SubSeq(line, 1, 3) = FenceLine
        /\ \A k \in 4..n : IsWord(line[k]) \/ line[k] \in {".", "-"}
        /\ \A k \in (n + 1)..Len(line) : IsWs(line[k])

\* the result is the lines a..b of the text, unchanged, and they are all the
\* lines between the fences but blank ones before a and after b
IsInnerOf(result, lines) ==
    LET n == Len(lines)
    IN  IF \A k \in 2..(n - 1) : IsBlankLine(lines[k]) THEN result = << >>
        ELSE \E a, b \in 2..(n - 1) :
               /\ a <= b
               /\ ~IsBlankLine(lines[a]) /\ ~IsBlankLine(lines[b])
               /\ \A k \in (2..(a - 1)) \cup ((b + 1)..(n - 1)) : IsBlankLine(lines[k])
               /\ result = JoinLines(SubSeq(lines, a, b))

StripsAsClaimed(fenced) ==
    IF fenced THEN IsInnerOf(ret[1], ArgLines) ELSE ret[1] = arg

\* C24 as stated: the text is returned unchanged unless it has at least two
\* lines, its first line is an opening fence and its last line is exactly
\* three backticks; then the lines between the fences are returned without
\* their leading and trailing blank lines, every other line as it was.
C24_StripsExactFences ==
    StripReturned =>
        StripsAsClaimed(/\ Len(ArgLines) >= 2
                        /\ OpensFence(ArgLines[1])
                        /\ ArgLines[Len(ArgLines)] = FenceLine)

\* C24 amended: as above, with a last line that is three backticks once the
\* white space around them is removed.
C24_StripsTrimmedClosingFence ==
    StripReturned =>
        StripsAsClaimed(/\ Len(ArgLines) >= 2
                        /\ OpensFence(ArgLines[1])
                        /\ Trim(ArgLines[Len(ArgLines)]) = FenceLine)

\* C24: blank lines on both sides of an indented line were dropped and the
\* indentation was kept
C24_IndentedLineKept ==
    /\ StripReturned
    /\ Len(ArgLines) = 5
    /\ IsBlankLine(ArgLines[2]) /\ IsBlankLine(ArgLines[4])
    /\ ret[1] = <<" ", "x">>

---------------------------------------------------------------------------
(* Properties of getDirectoryStructure.                                    *)

DirsReturned == fn = "getDirectoryStructure" /\ ret # Pending

\* a name the scan does not enter
ExcludedName(name) ==
    name \in IgnoredDirs \/ (name # << >> /\ name[1] = ".")

\* the directories that can be reached from baseDir without passing through
\* an excluded directory, themselves not excluded
NotExcluded(tree) ==
    {q \in DirectoriesOf(tree) : \A k \in 1..Len(q) : ~ExcludedName(q[k])}

\* and without passing through a directory whose listing fails
Reached(fs) ==
    {q \in NotExcluded(fs.tree) : \A k \in 0..(Len(q) - 1) : SubSeq(q, 1, k) \notin fs.unreadable}

SeqRange(q) == {q[k] : k \in 1..Len(q)}

\* C25: getDirectoryStructure returns exactly the relative, forward-slash
\* paths of the directories below baseDir that are reachable without passing
\* through a directory named node_modules, .git, dist or build or starting
\* with a dot; files and baseDir are not listed; a directory whose listing
\* fails is listed, its descendants are not, a warning is logged for it and
\* the scan goes on with the other directories.
C25_DirectoryStructure ==
    DirsReturned =>
        /\ SeqRange(ret[1].results) = {RelativePath(q) : q \in Reached(arg)}
        /\ << >> \notin SeqRange(ret[1].results)
        /\ {w.path : w \in SeqRange(ret[1].log)}
             = {q \in Reached(arg) \cup {<< >>} : q \in arg.unreadable}
        /\ \A w \in SeqRange(ret[1].log) : w.level = "warn"

\* C25: the listing of s failed: s was listed, s/s was not, there was one
\* warning, and the directory after s was listed all the same
C25_ScanWentOn ==
    /\ DirsReturned
    /\ arg.tree = { <<EntryNames[1]>>, <<EntryNames[1], EntryNames[1]>>, <<EntryNames[2]>> }
    /\ arg.unreadable = { <<EntryNames[1]>> }
    /\ ret[1].results = << <<"s">>, <<"a", "/", "b">> >>
    /\ Len(ret[1].log) = 1

---------------------------------------------------------------------------
(* Properties of the candidates of the cascade.                            *)

\* the captures of the patterns that match, in rank order: the strategies in
\* the order of the cascade, within a strategy the patterns or the comment
\* lines in their order; Null where a pattern does not match
PrecedingCandidates(rev, toks, j) ==
    IF j = 0 THEN << >>
    ELSE (IF rev = RevFrontMatter THEN <<YamlFrontMatterCapture(RawOf(toks[j]))>> ELSE << >>)
         \o (IF TextToSearch(toks[j]) = Null THEN << >>
             ELSE PathPatternCaptures(Trim(TextToSearch(toks[j]))))
HeaderCandidates(body) ==
    IF body = << >> THEN << >> ELSE CommentLineCaptures(SplitLines(body[1]))
ListItemCandidates(toks, walkedTo) ==
    IF walkedTo = {} THEN << >> ELSE <<ListItemPathCapture(toks[Max(walkedTo)].text)>>
FirstLineCandidates(rev, firstLine) ==
    IF firstLine = << >> THEN << >>
    ELSE IF rev = RevParser THEN FirstLineCaptures(Trim(firstLine))
         ELSE FirstLineCaptures012(Trim(firstLine))
RankedCandidates(rev, toks) ==
    PrecedingCandidates(rev, toks, NearestNonBlank(toks))
    \o HeaderCandidates(HeaderCommentBody(toks[Len(toks)].text))
    \o ListItemCandidates(toks, ListItemsWalkedTo(toks))
    \o FirstLineCandidates(rev, SplitLines(toks[Len(toks)].text)[1])

PassesValidation(c) == c # Null /\ isValidPathCandidate(Trim(c))
Passing(cands) == {k \in 1..Len(cands) : PassesValidation(cands[k])}
ResolvesToFirstPassing(cands, path) ==
    IF Passing(cands) = {} THEN path = Null
    ELSE path = Trim(cands[Min(Passing(cands))])

\* C29: a candidate that a pattern captures and that fails validation does
\* not end the search: the block resolves to the first candidate in rank
\* order that passes validation, and stays unresolved if none passes.
C29_FirstValidCandidate ==
    LocateReturned =>
        ResolvesToFirstPassing(RankedCandidates(arg.rev, arg.tokens), ret[1].path)

\* a pattern ranked above the one that gave the path has matched
FellThrough(cands) ==
    /\ Passing(cands) # {}
    /\ \E k \in 1..(Min(Passing(cands)) - 1) : cands[k] # Null
\* C29: in src/src/parser.ts a block resolved by a later strategy, or by a
\* later pattern of the preceding-node strategy, after a higher-ranked one had
\* captured a candidate that failed validation
C29_ResolvedAfterInvalidCandidate ==
    /\ LocateReturned /\ arg.rev = RevParser
    /\ FellThrough(RankedCandidates(arg.rev, arg.tokens))
    /\ FellThrough(PrecedingCandidates(arg.rev, arg.tokens, NearestNonBlank(arg.tokens)))
    /\ ret[1].foundBy = "Preceding Token"

---------------------------------------------------------------------------
(* Properties of the placeholder.                                          *)

\* '[LLM_APPLY_Processed '
PlaceholderOpening ==
    <<"[","L","L","M","_","A","P","P","L","Y","_","P","r","o","c","e","s","s","e","d"," ">>
ParsingDone == pc \in {"write", "exited"} /\ ~IsBlankInput(input)
HoldsPlaceholder(entry) == Includes(entry.content, PlaceholderOpening)

\* C26: the placeholder text that extractExplicitBlocks puts in place of a
\* matched block is in the content of no entry of the final map, whether the
\* entry comes from the other explicit syntax or from a fenced code block
\* around an explicit block.
C26_PlaceholderNeverLeaks ==
    ParsingDone =>
        \A e \in 1..Len(filesToWrite) : ~HoldsPlaceholder(filesToWrite[e])

---------------------------------------------------------------------------
(* Properties of explicit blocks that name the same path.                  *)

\* the blocks of one syntax in a text, in document order, as the entries they
\* ask for
BlocksOf(text, formatName) ==
    LET matches == MatchAll(text, 1, formatName)
    IN  [n \in 1..Len(matches) |->
            [path |-> BackslashToSlash(Trim(text[matches[n].from].path)),
             content |-> CleanExplicitContent(MatchContent(text, matches[n].from, matches[n].to)),
             format |-> formatName]]
Naming(blocks, p) == SelectSeq(blocks, LAMBDA b : b.path = p)
Last(q) == q[Len(q)]
\* the text that the comment pass hands to the tag pass
AfterCommentPass(text) == extractExplicitBlocks(text, CommentBlock, << >>, << >>).remaining
ExplicitOverwrites(console, p) ==
    Len(SelectSeq(console, LAMBDA l : /\ l.msg = "Overwriting" /\ l.path = p
                                      /\ l.by \in {CommentBlock, TagBlock}))
\* the entry and the warnings that the blocks cm and tm for the path p give
CollisionRule(files, console, p, cm, tm) ==
    (cm \o tm) # << >> =>
        /\ MapHas(files, p)
        /\ MapGet(files, p) = (IF tm # << >> THEN Last(tm) ELSE Last(cm))
        /\ ExplicitOverwrites(console, p) = Len(cm) + Len(tm) - 1

\* C28: when blocks of the explicit syntaxes name the same path, the final
\* entry is that of the last tagged block if there is one, wherever the
\* comment-delimited blocks stand, and else that of the last comment-delimited
\* block; every block but the first of a path gives one overwrite warning.
C28_TagBeatsComment ==
    ParsingDone =>
        \A p \in {ATs, DotATs} :
            CollisionRule(filesToWrite, log, p,
                          Naming(BlocksOf(input, CommentBlock), p),
                          Naming(BlocksOf(AfterCommentPass(input), TagBlock), p))

\* C28: the text opens with the element <file path="a.ts">T1</file>, a
\* comment-delimited block for a.ts follows it, and the final entry is the
\* element's, with one overwrite warning
C28_TagBeforeCommentWins ==
    /\ ParsingDone
    /\ input[1].kind = "tag"
    /\ Len(Naming(BlocksOf(input, CommentBlock), ATs)) = 1
    /\ BlocksOf(input, CommentBlock)[1].content # input[1].content
    /\ MapGet(filesToWrite, ATs) = [path |-> ATs, content |-> input[1].content, format |-> TagBlock]
    /\ ExplicitOverwrites(log, ATs) = 1

---------------------------------------------------------------------------
(* Properties of the keys as destinations.                                 *)

\* the file a key stands for once the normalization of the parser
\* (parser.ts:372-375) and of the writer (index.ts:85, 94) is applied
Destination(key) == ResolveAgainstCwd(WriterNormalize(NormalizePath(key)))

\* C27: no two keys of the final map stand for the same destination file,
\* and the writer writes no destination twice.
C27_KeysUniqueUpToNormalization ==
    ParsingDone =>
        /\ \A i, j \in 1..Len(filesToWrite) :
              i # j => Destination(filesToWrite[i].path) # Destination(filesToWrite[j].path)
        /\ \A a, b \in SuccessfulWrites :
              a # b => fsOps[a].target # fsOps[b].target

---------------------------------------------------------------------------
(* Properties of the writers.                                              *)

WriterRuns == fn = "runCli" /\ filesToWrite # << >>
WriterExited == WriterRuns /\ pc = "exited"
\* what the writer of the revision does with the key of an entry
RejectedBy(rev, e) ==
    IF rev = RevSequentialWriter THEN RejectsUnsafe(WriterNormalize(e.path))
    ELSE RejectsUnsafe016(e.path)
DestBy(rev, e) ==
    IF rev = RevSequentialWriter THEN ResolveAgainstCwd(WriterNormalize(e.path))
    ELSE Dest016(e.path)
\* the calls that end an attempt: a writeFile, or a call on the directory
\* that was refused
Outcomes(ops) ==
    {k \in 1..Len(ops) : ops[k].call = "writeFile" \/ ~ops[k].ok}
WritesAt(ops, dest) ==
    {k \in 1..Len(ops) : ops[k].call = "writeFile" /\ ops[k].target = dest}
Accepted(rev, files) == {i \in 1..Len(files) : ~RejectedBy(rev, files[i])}
\* the loop has passed every entry; there is one outcome for each entry that
\* is not rejected, and no destination has two writes
AttemptedOnce(rev, ops, files, cursor) ==
    /\ cursor = Len(files)
    /\ Cardinality(Outcomes(ops)) = Cardinality(Accepted(rev, files))
    /\ \A i \in Accepted(rev, files) : Cardinality(WritesAt(ops, DestBy(rev, files[i]))) <= 1
WrittenTo(ops, dest) ==
    \E k \in 1..Len(ops) : ops[k].call = "writeFile" /\ ops[k].ok /\ ops[k].target = dest
\* no destination is the directory of another, so that only a fault of the
\* file system makes a write fail
NoClash(rev, files) ==
    \A i, j \in 1..Len(files) :
        i # j => DestBy(rev, files[i]) \notin Prefixes(DestBy(rev, files[j]))
Accounts(files, cnt, ops, code) ==
    /\ cnt.written + cnt.errors = Len(files)
    /\ cnt.written = Cardinality({k \in 1..Len(ops) : ops[k].call = "writeFile" /\ ops[k].ok})
    /\ (code # 0) <=> (cnt.errors > 0)

\* C30: when the map is not empty, the writer has at its exit attempted every
\* entry once; an entry is written unless its path is rejected or the file
\* system refuses it, whatever became of the entries before it; written +
\* errors is the number of entries and the exit code is not zero exactly when
\* errors > 0.  The concurrent writer counts and exits only after every write
\* promise has settled, one promise for each entry it did not reject.
C30_WriterAccounting ==
    /\ WriterExited =>
         /\ AttemptedOnce(arg, fsOps, filesToWrite, counters.cursor)
         /\ (counters.faults = 0 /\ NoClash(arg, filesToWrite)) =>
               \A i \in 1..Len(filesToWrite) :
                   RejectedBy(arg, filesToWrite[i])
                   \/ WrittenTo(fsOps, DestBy(arg, filesToWrite[i]))
         /\ Accounts(filesToWrite, counters, fsOps, exitCode)
    /\ (WriterRuns /\ arg = RevParallelWriter) =>
         /\ (pc = "exited" \/ counters.written # 0 \/ exitCode # -1) =>
               /\ pc = "exited"
               /\ \A k \in 1..Len(writePromises) : IsSettled(writePromises[k])
               /\ Len(writePromises) = Cardinality(Accepted(arg, filesToWrite))
         /\ \A k, n \in 1..Len(writePromises) :
               k # n => writePromises[k].entry # writePromises[n].entry
         /\ \A k \in 1..Len(writePromises) :
               writePromises[k].entry \in Accepted(arg, filesToWrite)

\* C30: the concurrent writer has exited with 1 after the write of the first
\* of two entries failed and the second was written
C30_WrittenAfterFailure ==
    /\ WriterExited /\ arg = RevParallelWriter
    /\ Len(writePromises) = 2
    /\ ~writePromises[1].value /\ writePromises[2].value
    /\ counters.written = 1 /\ counters.errors = 1 /\ exitCode = 1

====
